---- MODULE Spec2Model ----
(***************************************************************************)
(* iconmate: the Iconify search popup (src/views/iconify_search_popup.rs)  *)
(* and the part of App (src/app_state.rs, src/tui.rs) that drives it.      *)
(*                                                                         *)
(* Text is a sequence of one-character strings.  Option<T> is a sequence   *)
(* of length at most one: None is << >>, Some(x) is << x >>.               *)
(* Result<T, String> is a record [ok, val, err].                           *)
(***************************************************************************)
EXTENDS Integers, Sequences, FiniteSets, TLC

VARIABLES
    app_focus,                    \* App.app_focus
    should_quit,                  \* App.should_quit
    iconify_search_popup_state,   \* App.iconify_search_popup_state : Option<IconifySearchPopupState>
    next_async_request_id,        \* App.next_async_request_id
    tasks,                        \* the tokio tasks spawned whose event App::update has not received yet
    pc,                           \* position of the UI loop of tui::run: "poll", "update", "done"
    returned_ids,                 \* history: the values next_request_id returned, in call order
    spawned,                      \* history: every task ever spawned, with the popup lifetime that spawned it
    lifetime,                     \* history: number of init_iconify_search_popup calls so far
    latest_result,                \* history: per category, the result received for the request spawned last
    last_event,                   \* history: the event the last handle_app_event of this update() handled
    last_action,                  \* history: the key the popup handled last and its PopupAction,
                                  \*          until the next handler runs
    delivered,                    \* history: the prefix and icons of the collection-icon completion
                                  \*          applied last in this popup lifetime, if it succeeded
    burst,                        \* history: query edits that armed the debounce since the last
                                  \*          search dispatch or change of tab or filter ("none",
                                  \*          "one", "many"), search dispatches since the last
                                  \*          query edit, and the time since that edit in ms
                                  \*          (no longer counted from SEARCH_DEBOUNCE_MS on)
    staged_icon,                  \* the icon handed to init_add_popup_with_icon_source : Option<String>
    ranking                       \* the calls of fuzzy_rank_indices under study: the query, the
                                  \*          candidates, the number of calls made, what the last
                                  \*          call returned and what the call before it returned

vars == << app_focus, should_quit, iconify_search_popup_state, next_async_request_id, tasks,
           pc, returned_ids, spawned, lifetime, latest_result, last_event, last_action,
           delivered, burst, staged_icon, ranking >>

----------------------------------------------------------------------------
(* Bounds of the model *)

\* ids issued in a behaviour of Spec or SpecLate (the guards of the id-issuing actions)
MaxRequests == 3
\* u64::MAX of next_async_request_id, scaled down so that saturation is reachable
U64Max == 127
\* characters in the search box
MaxQueryLen == 1
(* Program constants *)
SEARCH_DEBOUNCE_MS == 280

\* Instant::now().  Instants are kept relative to the present, in milliseconds: when time
\* passes, the instants the program holds (debounce_deadline) move towards 0 instead.
Now == 0

\* the clock advances in steps of half the debounce interval
ClockStep == SEARCH_DEBOUNCE_MS \div 2

----------------------------------------------------------------------------
(* Option and Result *)

None == << >>
Some(x) == << x >>
IsSome(o) == Len(o) > 0
Unwrap(o) == o[1]

Ok(v) == [ok |-> TRUE, val |-> v, err |-> ""]
Err(e) == [ok |-> FALSE, val |-> << >>, err |-> e]

----------------------------------------------------------------------------
(* Text *)

IsSpace(c) == c = " "

RECURSIVE TrimStart(_)
TrimStart(s) == IF s = << >> THEN << >>
                ELSE IF IsSpace(Head(s)) THEN TrimStart(Tail(s)) ELSE s

RECURSIVE TrimEnd(_)
TrimEnd(s) == IF s = << >> THEN << >>
              ELSE IF IsSpace(s[Len(s)]) THEN TrimEnd(SubSeq(s, 1, Len(s) - 1)) ELSE s

\* str::trim
Trim(s) == TrimEnd(TrimStart(s))

\* char::to_lowercase on the letters the model uses
Lower(c) == CASE c = "L" -> "l" [] c = "M" -> "m" [] c = "A" -> "a" [] c = "B" -> "b"
              [] c = "I" -> "i" [] c = "D" -> "d" [] c = "N" -> "n"
              [] OTHER -> c

\* format!("{} {}", a, b)
JoinSpace(a, b) == a \o << " " >> \o b

----------------------------------------------------------------------------
(* Fuzzy ranker.  Pattern::parse / Pattern::match_list are nucleo_matcher's: *)
(* the query is split at whitespace into atoms, a candidate matches when     *)
(* every atom occurs in it as a case-insensitive subsequence, and its score  *)
(* is the sum of the atoms' scores (matched characters, boundary and         *)
(* consecutive bonuses, gap penalties).                                      *)

RECURSIVE SplitWhitespace(_, _)
\* the whitespace-separated atoms of s (cur is the atom being read)
SplitWhitespace(s, cur) ==
    IF s = << >> THEN (IF cur = << >> THEN << >> ELSE << cur >>)
    ELSE IF IsSpace(Head(s))
         THEN (IF cur = << >> THEN << >> ELSE << cur >>) \o SplitWhitespace(Tail(s), << >>)
         ELSE SplitWhitespace(Tail(s), Append(cur, Head(s)))

RECURSIVE FirstIndex(_, _, _)
\* least i >= from with hay[i] = c ignoring case, 0 when there is none
FirstIndex(c, hay, from) ==
    IF from > Len(hay) THEN 0
    ELSE IF Lower(hay[from]) = Lower(c) THEN from
    ELSE FirstIndex(c, hay, from + 1)

\* position i before the positions rest : Option<Seq>
PrependPosition(i, rest) ==
    IF rest = None THEN None ELSE Some(<< i >> \o Unwrap(rest))

RECURSIVE MatchPositions(_, _, _)
\* positions at which the atom's characters occur in hay, in order : Option<Seq>
MatchPositions(atom, hay, from) ==
    IF atom = << >> THEN Some(<< >>)
    ELSE IF FirstIndex(Head(atom), hay, from) = 0 THEN None
    ELSE PrependPosition(FirstIndex(Head(atom), hay, from),
                         MatchPositions(Tail(atom), hay,
                                        FirstIndex(Head(atom), hay, from) + 1))

IsDelimiter(c) == c \in {" ", ":", "-", "_", "/"}

\* the score of the k-th matched character
CharScore(pos, hay, k) ==
    LET p == pos[k]
        boundary == IF p = 1 \/ IsDelimiter(hay[p - 1]) THEN 8 ELSE 0
        consecutive == IF k > 1 /\ pos[k - 1] = p - 1 THEN 4 ELSE 0
        gap == IF k > 1 /\ pos[k - 1] < p - 1 THEN 3 + (p - pos[k - 1] - 2) ELSE 0
    IN  16 + boundary + consecutive - gap

RECURSIVE PositionsScore(_, _, _)
PositionsScore(pos, hay, k) ==
    IF k > Len(pos) THEN 0
    ELSE CharScore(pos, hay, k) + PositionsScore(pos, hay, k + 1)

\* Atom::score : Option<score>
AtomScore(atom, hay) ==
    LET m == MatchPositions(atom, hay, 1) IN
    IF m = None THEN None ELSE Some(PositionsScore(Unwrap(m), hay, 1))

\* the sum of two scores, None when either atom did not match
AddScores(a, r) ==
    IF a = None \/ r = None THEN None ELSE Some(Unwrap(a) + Unwrap(r))

RECURSIVE PatternScoreAtoms(_, _)
PatternScoreAtoms(atoms, hay) ==
    IF atoms = << >> THEN Some(0)
    ELSE AddScores(AtomScore(Head(atoms), hay), PatternScoreAtoms(Tail(atoms), hay))

\* Pattern::parse(query, CaseMatching::Ignore, Normalization::Smart).score(haystack)
PatternScore(query, hay) == PatternScoreAtoms(SplitWhitespace(query, << >>), hay)

\* one candidate with its Option score: None when the pattern does not match the haystack
Scored(query, candidate) ==
    [index |-> candidate.index, score |-> PatternScore(query, candidate.haystack)]

\* A RankBefore that puts the later of two candidates of equal score first.
RankBefore_later_first(a, b) ==
    Unwrap(a.score) > Unwrap(b.score) \/ (a.score = b.score /\ a.index > b.index)

\* a sorts before b: higher score first, then lower original index
RankBefore(a, b) ==
    Unwrap(a.score) > Unwrap(b.score) \/ (a.score = b.score /\ a.index < b.index)

RECURSIVE SortMatched(_)
SortMatched(S) ==
    IF S = {} THEN << >>
    ELSE LET first == CHOOSE a \in S : \A b \in S \ {a} : RankBefore(a, b)
         IN  << first >> \o SortMatched(S \ {first})

\* the index field of every element, in order
Indices(ranked) == [i \in 1..Len(ranked) |-> ranked[i].index]

\* A fuzzy_rank_indices that matches and sorts whatever the query.
fuzzy_rank_indices_always_sorted(query, candidates) ==
    Indices(SortMatched({ m \in { Scored(query, candidates[i]) :
                                     i \in 1..Len(candidates) } : m.score # None }))

\* candidates: a sequence of [index, haystack]; the result: the indices kept, in rank order
fuzzy_rank_indices(query, candidates) ==
    IF Trim(query) = << >>
    THEN Indices(candidates)
    ELSE Indices(SortMatched({ m \in { Scored(query, candidates[i]) :
                                         i \in 1..Len(candidates) } : m.score # None }))

\* the items at the ranked (0-based) indices, in rank order
Ranked(items, ranked) == [i \in 1..Len(ranked) |-> items[ranked[i] + 1]]

CollectionCandidates(collections) ==
    [i \in 1..Len(collections) |->
        [index |-> i - 1, haystack |-> JoinSpace(collections[i].prefix, collections[i].name)]]

fuzzy_filter_collections(collections, query) ==
    Ranked(collections, fuzzy_rank_indices(query, CollectionCandidates(collections)))

IconCandidates(icons) == [i \in 1..Len(icons) |-> [index |-> i - 1, haystack |-> icons[i]]]

fuzzy_filter_icons(icons, query) ==
    Ranked(icons, fuzzy_rank_indices(query, IconCandidates(icons)))

----------------------------------------------------------------------------
(* IconifySearchPopupState.  selected_*_index keep Rust's 0-based values.  *)

\* a status message: a format string and its argument (<< >> when it has none)
Msg(fmt, arg) == [fmt |-> fmt, arg |-> arg]

\* IconifySearchPopupState::new
new ==
    [ search_textarea |-> << >>,
      search_value |-> << >>,
      active_tab |-> "Collections",
      selected_collection_index |-> 0,
      selected_icon_index |-> 0,
      all_collections |-> << >>,
      filtered_collections |-> << >>,
      search_icons |-> << >>,
      collection_icons |-> << >>,
      collection_icons_prefix |-> None,
      visible_icons |-> << >>,
      selected_collection_filter |-> None,
      pending_search_query |-> None,
      debounce_deadline |-> None,
      latest_collections_request_id |-> 0,
      latest_search_request_id |-> 0,
      latest_collection_icons_request_id |-> 0,
      is_loading_collections |-> FALSE,
      is_loading_search |-> FALSE,
      is_loading_collection_icons |-> FALSE,
      status_message |-> None,
      status_is_error |-> FALSE ]

\* An active_collections that falls back to the full list when nothing matches.
active_collections_or_all(s) ==
    IF Trim(s.search_value) = << >> \/ s.filtered_collections = << >>
    THEN s.all_collections
    ELSE s.filtered_collections

active_collections(s) ==
    IF Trim(s.search_value) = << >> THEN s.all_collections ELSE s.filtered_collections

\* A refresh_filtered_collections that keeps every collection.
refresh_filtered_collections_unranked(s) ==
    IF Trim(s.search_value) = << >>
    THEN [s EXCEPT !.filtered_collections = << >>]
    ELSE [s EXCEPT !.filtered_collections = s.all_collections]

refresh_filtered_collections(s) ==
    LET query == Trim(s.search_value) IN
    IF query = << >>
    THEN [s EXCEPT !.filtered_collections = << >>]
    ELSE [s EXCEPT !.filtered_collections = fuzzy_filter_collections(s.all_collections, query)]

\* A search_is_local that looks at the tab only.
search_is_local_on_tab_only(s) == s.active_tab # "Icons"

\* the condition under which no remote search runs, tested alike by
\* sync_search_dispatch_state, tick_iconify_search_popup and dispatch_iconify_search
search_is_local(s) ==
    s.active_tab # "Icons" \/ IsSome(s.selected_collection_filter)

\* A sync_search_dispatch_state that sets the pending query without a deadline.
sync_search_dispatch_state_without_deadline(s, t) ==
    IF Trim(s.search_value) = << >> \/ search_is_local(s)
    THEN [s EXCEPT !.pending_search_query = None,
                   !.debounce_deadline = None,
                   !.is_loading_search = FALSE]
    ELSE [s EXCEPT !.pending_search_query = Some(Trim(s.search_value)),
                   !.debounce_deadline = None,
                   !.is_loading_search = TRUE]

\* A sync_search_dispatch_state that arms the search on whatever tab, filter or not.
sync_search_dispatch_state_any_context(s, t) ==
    IF Trim(s.search_value) = << >>
    THEN [s EXCEPT !.pending_search_query = None,
                   !.debounce_deadline = None,
                   !.is_loading_search = FALSE]
    ELSE [s EXCEPT !.pending_search_query = Some(Trim(s.search_value)),
                   !.debounce_deadline = Some(t + SEARCH_DEBOUNCE_MS),
                   !.is_loading_search = TRUE]

\* t is Instant::now()
sync_search_dispatch_state(s, t) ==
    LET query == Trim(s.search_value) IN
    IF query = << >> \/ search_is_local(s)
    THEN [s EXCEPT !.pending_search_query = None,
                   !.debounce_deadline = None,
                   !.is_loading_search = FALSE]
    ELSE [s EXCEPT !.pending_search_query = Some(query),
                   !.debounce_deadline = Some(t + SEARCH_DEBOUNCE_MS),
                   !.is_loading_search = TRUE]

\* A set_status that shows every message as an informational one.
set_status_as_info(s, message, is_error) ==
    [s EXCEPT !.status_message = Some(message), !.status_is_error = FALSE]

set_status(s, message, is_error) ==
    [s EXCEPT !.status_message = Some(message), !.status_is_error = is_error]

\* A clear_status that leaves status_is_error as it is.
clear_status_keeping_error(s) ==
    [s EXCEPT !.status_message = None]

clear_status(s) ==
    [s EXCEPT !.status_message = None, !.status_is_error = FALSE]

\* A clear_search_input that keeps the text.
clear_search_input_keeping_text(s, t) ==
    clear_status(sync_search_dispatch_state(
        [s EXCEPT !.filtered_collections = << >>,
                  !.search_icons = << >>,
                  !.selected_icon_index = 0], t))

clear_search_input(s, t) ==
    LET s1 == [s EXCEPT !.search_textarea = << >>,
                        !.search_value = << >>,
                        !.filtered_collections = << >>,
                        !.search_icons = << >>,
                        !.selected_icon_index = 0]
    IN  clear_status(sync_search_dispatch_state(s1, t))

\* A selected_collection_prefix that takes the entry of the full list.
selected_collection_prefix_of_all(s) ==
    IF s.selected_collection_index < Len(s.all_collections)
    THEN Some(s.all_collections[s.selected_collection_index + 1].prefix)
    ELSE None

\* Option<String>: the prefix of the entry at selected_collection_index of the visible list
selected_collection_prefix(s) ==
    LET list == active_collections(s) IN
    IF s.selected_collection_index < Len(list)
    THEN Some(list[s.selected_collection_index + 1].prefix)
    ELSE None

\* A selected_icon_name that takes the first visible icon.
selected_icon_name_first(s) ==
    IF s.visible_icons # << >> THEN Some(s.visible_icons[1]) ELSE None

selected_icon_name(s) ==
    IF s.selected_icon_index < Len(s.visible_icons)
    THEN Some(s.visible_icons[s.selected_icon_index + 1])
    ELSE None

clamp_collection_selection(s) ==
    LET len == Len(active_collections(s)) IN
    IF len = 0 THEN [s EXCEPT !.selected_collection_index = 0]
    ELSE IF s.selected_collection_index >= len
         THEN [s EXCEPT !.selected_collection_index = len - 1]
         ELSE s

clamp_icon_selection(s) ==
    LET len == Len(s.visible_icons) IN
    IF len = 0 THEN [s EXCEPT !.selected_icon_index = 0]
    ELSE IF s.selected_icon_index >= len
         THEN [s EXCEPT !.selected_icon_index = len - 1]
         ELSE s

\* A refresh_visible_icons that shows the cached list whatever the query.
refresh_visible_icons_unranked(s) ==
    IF IsSome(s.selected_collection_filter)
    THEN IF s.collection_icons_prefix # s.selected_collection_filter
         THEN clamp_icon_selection([s EXCEPT !.visible_icons = << >>])
         ELSE clamp_icon_selection([s EXCEPT !.visible_icons = s.collection_icons])
    ELSE clamp_icon_selection([s EXCEPT !.visible_icons = s.search_icons])

refresh_visible_icons(s) ==
    IF IsSome(s.selected_collection_filter)
    THEN IF s.collection_icons_prefix # s.selected_collection_filter
         THEN clamp_icon_selection([s EXCEPT !.visible_icons = << >>])
         ELSE LET query == Trim(s.search_value) IN
              IF query = << >>
              THEN clamp_icon_selection([s EXCEPT !.visible_icons = s.collection_icons])
              ELSE clamp_icon_selection(
                       [s EXCEPT !.visible_icons = fuzzy_filter_icons(s.collection_icons, query)])
    ELSE clamp_icon_selection([s EXCEPT !.visible_icons = s.search_icons])

\* An update_search_lists that leaves the search dispatch state as it was.
update_search_lists_unsynced(s, t) ==
    IF Trim(s.search_value) = << >>
    THEN refresh_visible_icons([s EXCEPT !.filtered_collections = << >>,
                                         !.search_icons = << >>])
    ELSE refresh_visible_icons([s EXCEPT !.search_icons = << >>])

\* update_search_value, after refresh_filtered_collections: the lists a new text empties
update_search_lists(s, t) ==
    IF Trim(s.search_value) = << >>
    THEN sync_search_dispatch_state(
             refresh_visible_icons([s EXCEPT !.filtered_collections = << >>,
                                             !.search_icons = << >>]), t)
    ELSE sync_search_dispatch_state(
             refresh_visible_icons([s EXCEPT !.search_icons = << >>]), t)

\* called after search_textarea took the key; t is Instant::now()
update_search_value(s, t) ==
    update_search_lists(
        refresh_filtered_collections(
            [clear_status([s EXCEPT !.search_value = s.search_textarea])
                EXCEPT !.selected_collection_index = 0, !.selected_icon_index = 0]), t)

\* i32::rem_euclid
rem_euclid(a, b) == a % b

move_collection_selection(s, delta) ==
    LET len == Len(active_collections(s)) IN
    IF len = 0 THEN [s EXCEPT !.selected_collection_index = 0]
    ELSE [s EXCEPT !.selected_collection_index = rem_euclid(@ + delta, len)]

\* A move_icon_selection that does not wrap around.
move_icon_selection_unwrapped(s, delta) ==
    IF s.visible_icons = << >> THEN [s EXCEPT !.selected_icon_index = 0]
    ELSE [s EXCEPT !.selected_icon_index = IF @ + delta < 0 THEN 0 ELSE @ + delta]

move_icon_selection(s, delta) ==
    LET len == Len(s.visible_icons) IN
    IF len = 0 THEN [s EXCEPT !.selected_icon_index = 0]
    ELSE [s EXCEPT !.selected_icon_index = rem_euclid(@ + delta, len)]

\* TextArea::input for the keys the model presses; the cursor stays at the end
textarea_input(text, input) ==
    CASE input.key = "Char" -> Append(text, input.ch)
      [] input.key = "Backspace" -> IF text = << >> THEN text ELSE SubSeq(text, 1, Len(text) - 1)
      [] OTHER -> text

----------------------------------------------------------------------------
(* App.  An operator on the application takes and returns the record App   *)
(* of its fields (and of the history variables its calls update).          *)

App ==
    [ app_focus |-> app_focus,
      should_quit |-> should_quit,
      iconify_search_popup_state |-> iconify_search_popup_state,
      next_async_request_id |-> next_async_request_id,
      tasks |-> tasks,
      returned_ids |-> returned_ids,
      spawned |-> spawned,
      lifetime |-> lifetime,
      latest_result |-> latest_result,
      last_event |-> last_event,
      last_action |-> last_action,
      delivered |-> delivered,
      burst |-> burst,
      staged_icon |-> staged_icon ]

\* u64::saturating_add
saturating_add(x, y) == IF x + y > U64Max THEN U64Max ELSE x + y

\* App::next_request_id; the value returned is the new next_async_request_id
next_request_id(a) ==
    LET id == saturating_add(a.next_async_request_id, 1) IN
    [a EXCEPT !.next_async_request_id = id, !.returned_ids = Append(@, id)]

\* tokio::spawn of a task that captured request_id and arg (the query or the prefix);
\* lifetime tags the task with the popup lifetime that spawned it, serial with the number
\* of ids the session had issued (two tasks are two even when all they captured is equal)
spawn(a, cat, request_id, arg) ==
    LET task == [cat |-> cat, request_id |-> request_id, arg |-> arg,
                 lifetime |-> a.lifetime, serial |-> Len(a.returned_ids)]
    IN  [a EXCEPT !.tasks = @ \cup {task},
                  !.spawned = @ \cup {task},
                  !.latest_result[cat] = None,
                  !.burst.dispatches = IF cat = "search" THEN @ + 1 ELSE @]

Categories == { "collections", "search", "collection_icons" }

NoResults == [c \in Categories |-> None]

NoAction == [key |-> "None", action |-> "None", arg |-> << >>]

NoBurst == [edits |-> "none", dispatches |-> 0, age |-> SEARCH_DEBOUNCE_MS]

\* a query edit; armed: it left a pending query.  It starts a burst when the burst
\* before was dispatched, else it lengthens the burst
Edited(b, armed) ==
    LET before == IF b.dispatches > 0 THEN "none" ELSE b.edits IN
    [edits |-> IF ~armed THEN before ELSE IF before = "none" THEN "one" ELSE "many",
     dispatches |-> 0,
     age |-> 0]

with_state(a, s) == [a EXCEPT !.iconify_search_popup_state = Some(s)]

request_iconify_collections(a) ==
    LET a1 == next_request_id(a)
        request_id == a1.next_async_request_id
    IN  IF a1.iconify_search_popup_state = None THEN a1
        ELSE LET s == Unwrap(a1.iconify_search_popup_state)
                 s1 == set_status([s EXCEPT !.latest_collections_request_id = request_id,
                                            !.is_loading_collections = TRUE],
                                  Msg("Loading collections...", << >>), FALSE)
             IN  spawn(with_state(a1, s1), "collections", request_id, << >>)

init_iconify_search_popup(a) ==
    request_iconify_collections(
        [a EXCEPT !.app_focus = "IconifySearchPopup",
                  !.iconify_search_popup_state = Some(new),
                  !.lifetime = @ + 1,
                  !.latest_result = NoResults,
                  !.delivered = None,
                  !.burst = NoBurst])

\* A close_iconify_search_popup that gives the focus back but keeps the popup state.
close_iconify_search_popup_keeping_state(a) ==
    [a EXCEPT !.app_focus = "Main", !.delivered = None]

close_iconify_search_popup(a) ==
    [a EXCEPT !.app_focus = "Main", !.iconify_search_popup_state = None, !.delivered = None]

\* A dispatch_iconify_search that leaves the pending query and the deadline in place.
dispatch_iconify_search_keeping_pending(a, query) ==
    LET a1 == next_request_id(a)
        request_id == a1.next_async_request_id
    IN  IF a1.iconify_search_popup_state = None THEN a1
        ELSE LET s == Unwrap(a1.iconify_search_popup_state) IN
             IF search_is_local(s)
             THEN with_state(a1, [s EXCEPT !.pending_search_query = None,
                                           !.debounce_deadline = None,
                                           !.is_loading_search = FALSE])
             ELSE spawn(with_state(a1, [s EXCEPT !.latest_search_request_id = request_id,
                                                 !.is_loading_search = TRUE]),
                        "search", request_id, query)

dispatch_iconify_search(a, query) ==
    LET a1 == next_request_id(a)
        request_id == a1.next_async_request_id
    IN  IF a1.iconify_search_popup_state = None THEN a1
        ELSE LET s == Unwrap(a1.iconify_search_popup_state) IN
             IF search_is_local(s)
             THEN with_state(a1, [s EXCEPT !.pending_search_query = None,
                                           !.debounce_deadline = None,
                                           !.is_loading_search = FALSE])
             ELSE spawn(with_state(a1, [s EXCEPT !.pending_search_query = None,
                                                 !.debounce_deadline = None,
                                                 !.latest_search_request_id = request_id,
                                                 !.is_loading_search = TRUE]),
                        "search", request_id, query)

\* A should_fetch that does not look at the cached prefix.
should_fetch_always(s, prefix) == TRUE

\* open_collection_icons: the local should_fetch
should_fetch(s, prefix) == s.collection_icons_prefix # Some(prefix)

\* open_collection_icons, the request: a1 holds the id next_request_id returned
spawn_collection_icons(a1, prefix) ==
    spawn(with_state(a1,
              set_status([Unwrap(a1.iconify_search_popup_state) EXCEPT
                             !.latest_collection_icons_request_id = a1.next_async_request_id,
                             !.is_loading_collection_icons = TRUE],
                         Msg("Loading icons for collection '{prefix}'...", prefix), FALSE)),
          "collection_icons", a1.next_async_request_id, prefix)

\* open_collection_icons, from should_fetch on; s is the popup with the filter set
fetch_collection_icons(a, s, prefix) ==
    IF ~should_fetch(s, prefix) THEN with_state(a, s)
    ELSE spawn_collection_icons(
             next_request_id(with_state(a,
                 refresh_visible_icons([s EXCEPT !.collection_icons = << >>]))), prefix)

\* An open_collection_icons that sets the filter and stays on the tab it was called on.
open_collection_icons_keeping_tab(a, prefix, t) ==
    IF a.iconify_search_popup_state = None THEN a
    ELSE fetch_collection_icons(
             a,
             sync_search_dispatch_state(
                 refresh_visible_icons(
                     [Unwrap(a.iconify_search_popup_state) EXCEPT
                         !.selected_collection_filter = Some(prefix),
                         !.selected_icon_index = 0]), t),
             prefix)

\* t is Instant::now()
open_collection_icons(a, prefix, t) ==
    IF a.iconify_search_popup_state = None THEN a
    ELSE fetch_collection_icons(
             a,
             sync_search_dispatch_state(
                 refresh_visible_icons(
                     [Unwrap(a.iconify_search_popup_state) EXCEPT
                         !.active_tab = "Icons",
                         !.selected_collection_filter = Some(prefix),
                         !.selected_icon_index = 0]), t),
             prefix)

\* init_add_popup_with_icon_source: the add popup takes the focus, holding the icon
init_add_popup_with_icon_source(a, icon_name) ==
    [a EXCEPT !.app_focus = "AddPopup", !.staged_icon = Some(icon_name)]

\* handlekeys_iconify_search_popup, the match on the PopupAction; r is what the key
\* did to the popup: [state, action, arg, edit]
\* the name of a key in last_action
KeyName(input) == IF input.ctrl THEN "Ctrl+o" ELSE input.key

\* icones_collection_url : Option<String>
icones_collection_url(icon_name) ==
    LET i == FirstIndex(":", icon_name, 1) IN
    IF i = 0 THEN None
    ELSE Some(<< "https://icones.js.org/collection/" >> \o SubSeq(icon_name, 1, i - 1)
                 \o << "?icon=" >> \o icon_name)

\* opened: viewer::open_url_in_browser returned Ok(())
open_icon_browser_preview(a, icon_name, opened) ==
    IF a.iconify_search_popup_state = None THEN a
    ELSE LET s == Unwrap(a.iconify_search_popup_state)
             url == icones_collection_url(icon_name)
         IN  IF url = None
             THEN with_state(a, set_status(s,
                      Msg("Cannot open Icones page for invalid icon name '{icon_name}'.",
                          icon_name), TRUE))
             ELSE IF opened
             THEN with_state(a, set_status(s,
                      Msg("Opened Icones page: {url}", Unwrap(url)), FALSE))
             ELSE with_state(a, set_status(s,
                      Msg("Failed to open browser: {error}", << >>), TRUE))

perform_popup_action(a, r, input, t, opened) ==
    LET a1 == [with_state(a, r.state) EXCEPT
                  !.burst = IF r.edit THEN Edited(@, IsSome(r.state.pending_search_query))
                            ELSE IF input.key = "Tab"
                                    \/ r.action \in { "Close", "OpenCollection", "FillAddPopup" }
                                 THEN [@ EXCEPT !.edits = "none"]
                                 ELSE @,
                  !.last_action = [key |-> KeyName(input), action |-> r.action,
                                   arg |-> r.arg]]
    IN  CASE r.action = "Close" -> close_iconify_search_popup(a1)
          [] r.action = "OpenCollection" -> open_collection_icons(a1, r.arg, t)
          [] r.action = "FillAddPopup" ->
                 init_add_popup_with_icon_source(close_iconify_search_popup(a1), r.arg)
          [] r.action = "OpenIconInBrowser" -> open_icon_browser_preview(a1, r.arg, opened)
          [] OTHER -> a1

\* the key's effect on the popup state and the PopupAction it asks for
popup_key(s, input, t) ==
    CASE input.key = "Esc" -> [state |-> s, action |-> "Close", arg |-> << >>, edit |-> FALSE]
      [] input.key = "Tab" ->
            LET s1 == IF s.active_tab = "Collections"
                      THEN [s EXCEPT !.active_tab = "Icons"]
                      ELSE refresh_visible_icons(
                               [clear_search_input(
                                    [s EXCEPT !.selected_collection_filter = None], t)
                                  EXCEPT !.active_tab = "Collections",
                                         !.is_loading_collection_icons = FALSE])
            IN  [state |-> sync_search_dispatch_state(s1, t), action |-> "None", arg |-> << >>, edit |-> FALSE]
      [] input.key = "Up" ->
            [state |-> IF s.active_tab = "Collections"
                       THEN move_collection_selection(s, -1)
                       ELSE move_icon_selection(s, -1),
             action |-> "None", arg |-> << >>, edit |-> FALSE]
      [] input.key = "Down" ->
            [state |-> IF s.active_tab = "Collections"
                       THEN move_collection_selection(s, 1)
                       ELSE move_icon_selection(s, 1),
             action |-> "None", arg |-> << >>, edit |-> FALSE]
      [] input.key = "Enter" ->
            IF s.active_tab = "Collections"
            THEN LET prefix == selected_collection_prefix(s) IN
                 IF IsSome(prefix)
                 THEN [state |-> clear_search_input(s, t),
                       action |-> "OpenCollection", arg |-> Unwrap(prefix), edit |-> FALSE]
                 ELSE [state |-> s, action |-> "None", arg |-> << >>, edit |-> FALSE]
            ELSE LET icon_name == selected_icon_name(s) IN
                 IF IsSome(icon_name)
                 THEN [state |-> s, action |-> "FillAddPopup", arg |-> Unwrap(icon_name),
                       edit |-> FALSE]
                 ELSE [state |-> set_status(s, Msg("No icon selected.", << >>), TRUE),
                       action |-> "None", arg |-> << >>, edit |-> FALSE]
      [] input.key = "Char" /\ input.ch = "o" /\ input.ctrl ->
            IF s.active_tab = "Icons"
            THEN LET icon_name == selected_icon_name(s) IN
                 IF IsSome(icon_name)
                 THEN [state |-> s, action |-> "OpenIconInBrowser",
                       arg |-> Unwrap(icon_name), edit |-> FALSE]
                 ELSE [state |-> set_status(s, Msg("No icon selected.", << >>), TRUE),
                       action |-> "None", arg |-> << >>, edit |-> FALSE]
            ELSE [state |-> s, action |-> "None", arg |-> << >>, edit |-> FALSE]
      [] OTHER ->
            [state |-> update_search_value(
                           [s EXCEPT !.search_textarea = textarea_input(@, input)], t),
             action |-> "None", arg |-> << >>, edit |-> TRUE]

\* A handlekeys_iconify_search_popup in which j and k move the selection as Down and Up.
handlekeys_iconify_search_popup_jk_navigate(a, input, t, opened) ==
    IF a.iconify_search_popup_state = None THEN a
    ELSE LET plain == input.key = "Char" /\ ~input.ctrl
             translated == IF plain /\ input.ch = "j" THEN [input EXCEPT !.key = "Down"]
                           ELSE IF plain /\ input.ch = "k" THEN [input EXCEPT !.key = "Up"]
                           ELSE input
         IN  perform_popup_action(
                 a, popup_key(Unwrap(a.iconify_search_popup_state), translated, t),
                 input, t, opened)

\* opened is the outcome of viewer::open_url_in_browser, if the key asks for it
handlekeys_iconify_search_popup(a, input, t, opened) ==
    IF a.iconify_search_popup_state = None THEN a
    ELSE perform_popup_action(
             a, popup_key(Unwrap(a.iconify_search_popup_state), input, t), input, t, opened)

\* MainState::handlekeys_normal: 'q' quits, 'i' opens the popup
handlekeys_main(a, input) ==
    CASE input.key = "Char" /\ input.ch = "q" -> [a EXCEPT !.should_quit = TRUE]
      [] input.key = "Char" /\ input.ch = "i" -> init_iconify_search_popup(a)
      [] OTHER -> a

\* App::handlekeys_add_popup: Esc closes the add popup
handlekeys_add_popup(a, input) ==
    IF input.key = "Esc" THEN [a EXCEPT !.app_focus = "Main", !.staged_icon = None] ELSE a

\* App::handlekeys
handlekeys(a, input, t, opened) ==
    CASE a.app_focus = "Main" -> handlekeys_main(a, input)
      [] a.app_focus = "AddPopup" -> handlekeys_add_popup(a, input)
      [] OTHER -> handlekeys_iconify_search_popup(a, input, t, opened)

\* A tick that dispatches the pending query without looking at the deadline.
tick_without_debounce(a, t) ==
    LET query_to_dispatch ==
            IF a.iconify_search_popup_state = None THEN None
            ELSE LET s == Unwrap(a.iconify_search_popup_state) IN
                 IF search_is_local(s) THEN None
                 ELSE IF s.debounce_deadline = None THEN None
                 ELSE s.pending_search_query
    IN  IF IsSome(query_to_dispatch)
        THEN dispatch_iconify_search(a, Unwrap(query_to_dispatch))
        ELSE a

\* t is Instant::now()
tick_iconify_search_popup(a, t) ==
    LET query_to_dispatch ==
            IF a.iconify_search_popup_state = None THEN None
            ELSE LET s == Unwrap(a.iconify_search_popup_state) IN
                 IF search_is_local(s) THEN None
                 ELSE IF s.debounce_deadline = None THEN None
                 ELSE IF t >= Unwrap(s.debounce_deadline) THEN s.pending_search_query
                 ELSE None
    IN  IF IsSome(query_to_dispatch)
        THEN dispatch_iconify_search(a, Unwrap(query_to_dispatch))
        ELSE a

\* the status line once the collections of an Ok payload are in place
collections_loaded_status(a, s) ==
    IF s.all_collections = << >>
    THEN with_state(a, set_status(s, Msg("No Iconify collections found.", << >>), TRUE))
    ELSE IF ~s.is_loading_search
         THEN with_state(a, clear_status(s))
         ELSE with_state(a, s)

\* An apply_collections_loaded that shows no status for an error.
apply_collections_loaded_silently(a, s, event) ==
    IF event.result.ok
    THEN collections_loaded_status(a, clamp_collection_selection(refresh_filtered_collections(
             [s EXCEPT !.is_loading_collections = FALSE,
                       !.all_collections = event.result.val])))
    ELSE with_state(a, [s EXCEPT !.is_loading_collections = FALSE])

\* An apply_collections_loaded that stores the catalog without filtering it again.
apply_collections_loaded_unfiltered(a, s, event) ==
    IF event.result.ok
    THEN collections_loaded_status(a, clamp_collection_selection(
             [s EXCEPT !.is_loading_collections = FALSE,
                       !.all_collections = event.result.val]))
    ELSE with_state(a, set_status([s EXCEPT !.is_loading_collections = FALSE],
                                  Msg(event.result.err, << >>), TRUE))

\* handle_app_event, IconifyCollectionsLoaded with the latest id: the payload is applied
apply_collections_loaded(a, s, event) ==
    IF event.result.ok
    THEN collections_loaded_status(a, clamp_collection_selection(refresh_filtered_collections(
             [s EXCEPT !.is_loading_collections = FALSE,
                       !.all_collections = event.result.val])))
    ELSE with_state(a, set_status([s EXCEPT !.is_loading_collections = FALSE],
                                  Msg(event.result.err, << >>), TRUE))

\* handle_app_event, the arm AppEvent::IconifyCollectionsLoaded
handle_collections_loaded(a, s, event) ==
    IF event.request_id # s.latest_collections_request_id THEN a
    ELSE apply_collections_loaded(a, s, event)

\* the status line once the icons of an Ok search payload are in place
search_loaded_status(a, s) ==
    IF s.search_icons = << >> /\ active_collections(s) = << >>
    THEN with_state(a, set_status(s, Msg("No matching icons or collections.", << >>), FALSE))
    ELSE with_state(a, clear_status(s))

\* An apply_search_loaded that leaves is_loading_search set.
apply_search_loaded_still_loading(a, s, event) ==
    IF event.result.ok
    THEN search_loaded_status(a, refresh_visible_icons(clamp_collection_selection(
             [s EXCEPT !.search_icons = event.result.val])))
    ELSE with_state(a, set_status(refresh_visible_icons([s EXCEPT !.search_icons = << >>]),
                                  Msg(event.result.err, << >>), TRUE))

\* handle_app_event, IconifySearchLoaded that passed the three guards
apply_search_loaded(a, s, event) ==
    IF event.result.ok
    THEN search_loaded_status(a, refresh_visible_icons(clamp_collection_selection(
             [s EXCEPT !.is_loading_search = FALSE, !.search_icons = event.result.val])))
    ELSE with_state(a, set_status(refresh_visible_icons(
                                      [s EXCEPT !.is_loading_search = FALSE,
                                                !.search_icons = << >>]),
                                  Msg(event.result.err, << >>), TRUE))

\* A guard_search_loaded that applies the payload whatever the query, tab and filter.
guard_search_loaded_none(a, s, event) ==
    apply_search_loaded(a, s, event)

\* handle_app_event, IconifySearchLoaded with the latest id: the query and context guards
guard_search_loaded(a, s, event) ==
    IF event.arg # Trim(s.search_value) THEN a
    ELSE IF s.active_tab # "Icons" \/ IsSome(s.selected_collection_filter)
         THEN with_state(a, [s EXCEPT !.is_loading_search = FALSE])
         ELSE apply_search_loaded(a, s, event)

\* handle_app_event, the arm AppEvent::IconifySearchLoaded
handle_search_loaded(a, s, event) ==
    IF event.request_id # s.latest_search_request_id THEN a
    ELSE guard_search_loaded(a, s, event)

\* the status line once the icons of an Ok collection payload are in place
collection_icons_loaded_status(a, s) ==
    IF s.collection_icons = << >>
    THEN with_state(a, set_status(s, Msg("No icons in this collection.", << >>), FALSE))
    ELSE IF Trim(s.search_value) # << >> /\ s.visible_icons = << >>
         THEN with_state(a, set_status(s,
                  Msg("No matching icons in this collection.", << >>), FALSE))
         ELSE with_state(a, clear_status(s))

\* An apply_collection_icons_loaded that does not refresh visible_icons.
apply_collection_icons_loaded_unrefreshed(a, s, event) ==
    IF event.result.ok
    THEN collection_icons_loaded_status(
             [a EXCEPT !.delivered = Some([prefix |-> event.arg, icons |-> event.result.val])],
             [s EXCEPT !.is_loading_collection_icons = FALSE,
                       !.collection_icons_prefix = Some(event.arg),
                       !.collection_icons = event.result.val])
    ELSE with_state([a EXCEPT !.delivered = None], set_status(
             [s EXCEPT !.is_loading_collection_icons = FALSE,
                       !.collection_icons = << >>,
                       !.collection_icons_prefix = None],
             Msg(event.result.err, << >>), TRUE))

\* handle_app_event, IconifyCollectionIconsLoaded with the latest id: the payload is applied
apply_collection_icons_loaded(a, s, event) ==
    IF event.result.ok
    THEN collection_icons_loaded_status(
             [a EXCEPT !.delivered = Some([prefix |-> event.arg, icons |-> event.result.val])],
             refresh_visible_icons(
                 [s EXCEPT !.is_loading_collection_icons = FALSE,
                           !.collection_icons_prefix = Some(event.arg),
                           !.collection_icons = event.result.val]))
    ELSE with_state([a EXCEPT !.delivered = None], set_status(
             refresh_visible_icons([s EXCEPT !.is_loading_collection_icons = FALSE,
                                             !.collection_icons = << >>,
                                             !.collection_icons_prefix = None]),
             Msg(event.result.err, << >>), TRUE))

\* A handle_collection_icons_loaded that applies every event, whatever its id.
handle_collection_icons_loaded_any_id(a, s, event) ==
    apply_collection_icons_loaded(a, s, event)

\* handle_app_event, the arm AppEvent::IconifyCollectionIconsLoaded
handle_collection_icons_loaded(a, s, event) ==
    IF event.request_id # s.latest_collection_icons_request_id THEN a
    ELSE apply_collection_icons_loaded(a, s, event)

\* App::handle_app_event; event is [type, request_id, arg, result]
handle_app_event(a, event) ==
    IF a.iconify_search_popup_state = None THEN a
    ELSE LET s == Unwrap(a.iconify_search_popup_state) IN
         CASE event.type = "IconifyCollectionsLoaded" -> handle_collections_loaded(a, s, event)
           [] event.type = "IconifySearchLoaded" -> handle_search_loaded(a, s, event)
           [] OTHER -> handle_collection_icons_loaded(a, s, event)

----------------------------------------------------------------------------
(* The remote catalog (IconifyClient) and the keyboard: the inputs *)

\* the collections a successful IconifyClient::collections delivers, sorted by prefix
Catalog ==
    << [prefix |-> << "l" >>, name |-> << "L", "a" >>, total |-> Some(2)],
       [prefix |-> << "m" >>, name |-> << "M", "b" >>, total |-> None] >>

Prefixes == { Catalog[i].prefix : i \in 1..Len(Catalog) }

\* format!("{}:{icon}", response.prefix) over the icons of a collection
IconsOf(prefix) ==
    IF prefix = << "m" >>
    THEN << << "m", ":", "a" >>, << "m", ":", "b" >> >>
    ELSE << prefix \o << ":", "a" >> >>

\* the outcomes of a task: an error, an empty success, a non-empty success
Outcomes(task) ==
    CASE task.cat = "collections" -> { Err("request failed"), Ok(<< >>), Ok(Catalog) }
      [] task.cat = "search" ->
             { Err("request failed"), Ok(<< >>),
               Ok(<< << "l", ":" >> \o task.arg, << "m", ":" >> \o task.arg >>) }
      [] OTHER -> { Err("request failed"), Ok(<< >>), Ok(IconsOf(task.arg)) }

EventType(cat) ==
    CASE cat = "collections" -> "IconifyCollectionsLoaded"
      [] cat = "search" -> "IconifySearchLoaded"
      [] OTHER -> "IconifyCollectionIconsLoaded"

Char(c) == [key |-> "Char", ch |-> c, ctrl |-> FALSE]
Key(k) == [key |-> k, ch |-> "", ctrl |-> FALSE]
Ctrl(c) == [key |-> "Char", ch |-> c, ctrl |-> TRUE]

QueryChars == { "a", "b", " " }

\* the keys pressed while the popup has the focus
PopupKeys == { Key(k) : k \in { "Esc", "Tab", "Up", "Down", "Enter", "Backspace" } }
             \cup { Char(c) : c \in QueryChars }
             \cup { Ctrl("o") }

\* the keys pressed while the main view has the focus
MainKeys == { Char("i"), Char("q") }

\* characters of the main view's bindings and of list navigation elsewhere
PlainChars == { "j", "k", "q" }

\* the keys pressed while the popup has the focus, with PlainChars as the characters
TypedKeys == { Key(k) : k \in { "Esc", "Tab", "Up", "Down", "Enter", "Backspace" } }
             \cup { Char(c) : c \in PlainChars }
             \cup { Ctrl("o") }

----------------------------------------------------------------------------
(* The inputs of the fuzzy ranker *)

\* candidates in one call of fuzzy_rank_indices
MaxCandidates == 3
\* characters in a query drawn from RankChars
MaxRankQueryLen == 3

RankChars == { "b", "n", "B", " " }

\* the haystacks of the unit tests (icon names, and "prefix name" of the collections),
\* and an icon name in which n and b stand the other way round
RankHaystacks ==
    { << "l", "u", "c", "i", "d", "e", ":", "n", "i", "b" >>,
      << "l", "u", "c", "i", "d", "e", ":", "b", "e", "a", "n" >>,
      << "l", "u", "c", "i", "d", "e", ":", "b", "e", "a", "k", "e", "r" >>,
      << "l", "u", "c", "i", "d", "e", ":", "h", "o", "m", "e" >>,
      << "l", "u", "c", "i", "d", "e", " ", "L", "u", "c", "i", "d", "e", " ", "I", "c", "o", "n", "s" >>,
      << "m", "d", "i", " ", "M", "a", "t", "e", "r", "i", "a", "l", " ", "D", "e", "s", "i", "g", "n", " ", "I", "c", "o", "n", "s" >> }

RECURSIVE SeqsUpTo(_, _)
\* the sequences over S of length at most n
SeqsUpTo(S, n) ==
    IF n = 0 THEN { << >> }
    ELSE LET shorter == SeqsUpTo(S, n - 1)
         IN  shorter \cup { Append(s, x) : s \in { u \in shorter : Len(u) = n - 1 }, x \in S }

\* the queries of the unit tests and every text of RankChars up to MaxRankQueryLen
RankQueries == SeqsUpTo(RankChars, MaxRankQueryLen) \cup { << "l", "c", "d" >> }

\* Vec<FuzzyCandidate> over the haystacks hays; index is the position in the caller's
\* list, which the callers pass in order (reversed: the same candidates, last first)
FuzzyCandidates(hays, reversed) ==
    [i \in 1..Len(hays) |->
        [index |-> IF reversed THEN Len(hays) - i ELSE i - 1, haystack |-> hays[i]]]

NoRanking == [query |-> << >>, candidates |-> << >>, calls |-> 0,
              result |-> None, previous |-> None]

----------------------------------------------------------------------------
(* The specification *)

Init ==
    /\ app_focus = "Main"
    /\ should_quit = FALSE
    /\ iconify_search_popup_state = None
    /\ next_async_request_id = 0
    /\ tasks = {}
    /\ pc = "poll"
    /\ returned_ids = << >>
    /\ spawned = {}
    /\ lifetime = 0
    /\ latest_result = NoResults
    /\ last_event = None
    /\ last_action = NoAction
    /\ delivered = None
    /\ burst = NoBurst
    /\ staged_icon = None
    /\ ranking = NoRanking

\* A state late in a session: the popup closed, every task answered, and the counter
\* one below its largest value.  (The history variables start here.)
InitLate ==
    /\ app_focus = "Main"
    /\ should_quit = FALSE
    /\ iconify_search_popup_state = None
    /\ next_async_request_id = U64Max - 1
    /\ tasks = {}
    /\ pc = "poll"
    /\ returned_ids = << >>
    /\ spawned = {}
    /\ lifetime = 0
    /\ latest_result = NoResults
    /\ last_event = None
    /\ last_action = NoAction
    /\ delivered = None
    /\ burst = NoBurst
    /\ staged_icon = None
    /\ ranking = NoRanking

\* the application's fields become those of a
Commit(a) ==
    /\ app_focus' = a.app_focus
    /\ should_quit' = a.should_quit
    /\ iconify_search_popup_state' = a.iconify_search_popup_state
    /\ next_async_request_id' = a.next_async_request_id
    /\ tasks' = a.tasks
    /\ returned_ids' = a.returned_ids
    /\ spawned' = a.spawned
    /\ lifetime' = a.lifetime
    /\ latest_result' = a.latest_result
    /\ last_event' = a.last_event
    /\ last_action' = a.last_action
    /\ delivered' = a.delivered
    /\ burst' = a.burst
    /\ staged_icon' = a.staged_icon
    /\ UNCHANGED ranking

\* a step that keeps the number of ids issued within MaxRequests + 1
CommitWithin(a) ==
    /\ Len(a.returned_ids) <= MaxRequests
    /\ Commit(a)

\* the popup is sent the keys of PopupKeys, and its text box holds at most MaxQueryLen
\* characters
KeyAllowed(keys, input) ==
    app_focus = "IconifySearchPopup"
        => /\ input \in keys
           /\ ( input.key = "Char" /\ ~input.ctrl )
                  => Len(Unwrap(iconify_search_popup_state).search_textarea) < MaxQueryLen

\* tui::run: event::poll returned a key and App::handlekeys handled it
KeyPress(keys, input) ==
    /\ pc = "poll"
    /\ KeyAllowed(keys, input)
    /\ \E opened \in IF input = Ctrl("o") THEN BOOLEAN ELSE { TRUE } :
          CommitWithin(handlekeys([App EXCEPT !.last_action = NoAction], input, Now, opened))
    /\ pc' = "update"

\* tui::run: event::poll timed out
NoKey ==
    /\ pc = "poll"
    /\ pc' = "update"
    /\ UNCHANGED << app_focus, should_quit, iconify_search_popup_state,
                    next_async_request_id, tasks, returned_ids, spawned, lifetime,
                    latest_result, last_event, last_action, delivered, burst, staged_icon,
                    ranking >>

\* the id of the task of category cat spawned last in the current popup lifetime, 0 if none
LastSpawned(cat) ==
    LET ids == { t.request_id : t \in { u \in spawned : u.cat = cat /\ u.lifetime = lifetime } }
    IN  IF ids = {} THEN 0 ELSE CHOOSE i \in ids : \A j \in ids : j <= i

\* A task got its answer from the remote catalog and sent its event on App.tx, and
\* App::update received it from App.rx and handled it.  (Tasks complete in any order, so
\* events are received in any order; a task whose event is still in the channel is in tasks.)
Receive(task, result) ==
    /\ pc = "update"
    /\ task \in tasks
    /\ result \in Outcomes(task)
    /\ LET event == [type |-> EventType(task.cat), request_id |-> task.request_id,
                     arg |-> task.arg, result |-> result]
       IN  Commit([handle_app_event(App, event) EXCEPT
                      !.tasks = @ \ {task},
                      !.latest_result[task.cat] =
                          IF task.request_id = LastSpawned(task.cat) THEN Some(result) ELSE @,
                      !.last_event = Some(task),
                      !.last_action = NoAction])
    /\ UNCHANGED pc

\* App::update: rx.try_recv() found the channel empty; tick_iconify_search_popup runs;
\* then the loop of tui::run ends when should_quit is set
Tick ==
    /\ pc = "update"
    /\ CommitWithin(tick_iconify_search_popup(
           [App EXCEPT !.last_event = None, !.last_action = NoAction], Now))
    /\ pc' = IF should_quit THEN "done" ELSE "poll"

\* Time passes: ClockStep ms later, the deadline is that much nearer.  (Only a deadline
\* that is armed and not yet reached makes the passing of time observable.)
AdvanceTime ==
    /\ iconify_search_popup_state # None
    /\ LET s == Unwrap(iconify_search_popup_state) IN
         /\ s.debounce_deadline # None
         /\ Unwrap(s.debounce_deadline) > Now
         /\ iconify_search_popup_state' =
                Some([s EXCEPT !.debounce_deadline = Some(Unwrap(@) - ClockStep)])
    /\ burst' = [burst EXCEPT !.age = IF @ + ClockStep > SEARCH_DEBOUNCE_MS
                                      THEN SEARCH_DEBOUNCE_MS ELSE @ + ClockStep]
    /\ UNCHANGED << app_focus, should_quit, next_async_request_id, tasks, pc, returned_ids,
                    spawned, lifetime, latest_result, last_event, last_action, delivered,
                    staged_icon, ranking >>

Next ==
    \/ \E input \in PopupKeys \cup MainKeys : KeyPress(PopupKeys, input)
    \/ NoKey
    \/ \E task \in tasks : \E result \in Outcomes(task) : Receive(task, result)
    \/ Tick
    \/ AdvanceTime

Spec == Init /\ [][Next]_vars

\* the same loop with the keys of TypedKeys
NextTyped ==
    \/ \E input \in TypedKeys \cup MainKeys : KeyPress(TypedKeys, input)
    \/ NoKey
    \/ \E task \in tasks : \E result \in Outcomes(task) : Receive(task, result)
    \/ Tick
    \/ AdvanceTime

SpecTyped == Init /\ [][NextTyped]_vars

\* the keys pressed while the popup has the focus, with End among them: End moves the
\* cursor of search_textarea to the end of the line, where every key of this set
\* leaves it, and falls to the `_` arm of handlekeys_iconify_search_popup
CursorKeys == { Key(k) : k \in { "Esc", "Tab", "Enter", "Backspace", "End" } }
              \cup { Char("a") }

\* the same loop with the keys of CursorKeys
NextCursor ==
    \/ \E input \in CursorKeys \cup MainKeys : KeyPress(CursorKeys, input)
    \/ NoKey
    \/ \E task \in tasks : \E result \in Outcomes(task) : Receive(task, result)
    \/ Tick
    \/ AdvanceTime

SpecCursor == Init /\ [][NextCursor]_vars

\* tui::run with a key that arms the debounce accepted only while an id is left for
\* the dispatch of its query (CommitWithin would stop that tick otherwise)
KeyPressFair(keys, input) ==
    /\ KeyPress(keys, input)
    /\ ( /\ iconify_search_popup_state' # None
         /\ Unwrap(iconify_search_popup_state').pending_search_query # None )
       => Len(returned_ids') < MaxRequests

\* the keys that open and close the popup, change the tab, open a collection and edit
\* the query
FairKeys == { Key("Esc"), Key("Tab"), Key("Enter"), Key("Backspace"), Char("a") }

NextFair ==
    \/ \E input \in FairKeys \cup MainKeys : KeyPressFair(FairKeys, input)
    \/ NoKey
    \/ \E task \in tasks : \E result \in Outcomes(task) : Receive(task, result)
    \/ Tick
    \/ AdvanceTime

\* The loop of tui::run keeps running (poll times out, update() runs to its tick), time
\* passes, and a task that was spawned sends its event, which update() receives.
SpecFair ==
    /\ Init /\ [][NextFair]_vars
    /\ WF_vars(NoKey)
    /\ WF_vars(Tick)
    /\ WF_vars(AdvanceTime)
    /\ SF_vars(\E task \in tasks : \E result \in Outcomes(task) : Receive(task, result))

\* The fuzzy ranker alone: a query and a candidate list, and fuzzy_rank_indices called
\* on them, twice.
InitRank ==
    /\ app_focus = "Main"
    /\ should_quit = FALSE
    /\ iconify_search_popup_state = None
    /\ next_async_request_id = 0
    /\ tasks = {}
    /\ pc = "poll"
    /\ returned_ids = << >>
    /\ spawned = {}
    /\ lifetime = 0
    /\ latest_result = NoResults
    /\ last_event = None
    /\ last_action = NoAction
    /\ delivered = None
    /\ burst = NoBurst
    /\ staged_icon = None
    /\ \E query \in RankQueries, hays \in SeqsUpTo(RankHaystacks, MaxCandidates),
          reversed \in BOOLEAN :
          ranking = [NoRanking EXCEPT !.query = query,
                                      !.candidates = FuzzyCandidates(hays, reversed)]

CallRank ==
    /\ ranking.calls < 2
    /\ ranking' = [ranking EXCEPT
                      !.calls = @ + 1,
                      !.previous = ranking.result,
                      !.result = Some(fuzzy_rank_indices(ranking.query, ranking.candidates))]
    /\ UNCHANGED << app_focus, should_quit, iconify_search_popup_state,
                    next_async_request_id, tasks, pc, returned_ids, spawned, lifetime,
                    latest_result, last_event, last_action, delivered, burst, staged_icon >>

NextRank == CallRank

SpecRank == InitRank /\ [][NextRank]_vars

SpecLate == InitLate /\ [][Next]_vars

----------------------------------------------------------------------------
(* What the properties below observe *)

PopupOpen == iconify_search_popup_state # None

\* the popup state, when the popup is open
Popup == Unwrap(iconify_search_popup_state)

\* the latest id the popup state s recorded for a category
LatestId(s, cat) ==
    CASE cat = "collections" -> s.latest_collections_request_id
      [] cat = "search" -> s.latest_search_request_id
      [] OTHER -> s.latest_collection_icons_request_id

\* the data the popup state s holds for a category
Data(s, cat) ==
    CASE cat = "collections" -> s.all_collections
      [] cat = "search" -> s.search_icons
      [] OTHER -> s.collection_icons

\* the requests of a category spawned in the current popup lifetime
Requests(cat) == { u \in spawned : u.cat = cat /\ u.lifetime = lifetime }

\* this step is App::update handling the completion event of task
Handled(task) == task \in tasks /\ task \notin tasks'

----------------------------------------------------------------------------
(* C1 *)

\* C1: in every category, handling a completion event whose request_id differs from the
\* latest id the popup recorded for that category leaves every field of the popup state
\* unchanged, in whatever order the completions arrive.
C1_StaleCompletionChangesNothing ==
    [][\A task \in tasks :
          ( /\ Handled(task)
            /\ PopupOpen
            /\ task.request_id # LatestId(Popup, task.cat) )
          => iconify_search_popup_state' = iconify_search_popup_state]_vars

\* A completion for an older id of the current lifetime was handled last, after the
\* completion of a later request of its category had been applied.
C1_Witness ==
    /\ PopupOpen
    /\ last_event # None
    /\ LET e == Unwrap(last_event) IN
         /\ e.lifetime = lifetime
         /\ e.request_id < LatestId(Popup, e.cat)
         /\ \E u \in Requests(e.cat) \ tasks :
               /\ u.request_id = LatestId(Popup, e.cat)
               /\ Data(Popup, e.cat) # << >>
               /\ latest_result[e.cat] = Some(Ok(Data(Popup, e.cat)))

----------------------------------------------------------------------------
(* C2 *)

\* C2: the data the popup holds for a category is empty, or it is the payload received
\* for the request of that category that was issued last (whose id the popup recorded as
\* the latest); it is never the payload of an older request.
C2_DataIsOfLatestRequest ==
    PopupOpen =>
        \A cat \in Categories :
            \/ Data(Popup, cat) = << >>
            \/ /\ LatestId(Popup, cat) = LastSpawned(cat)
               /\ latest_result[cat] = Some(Ok(Data(Popup, cat)))

----------------------------------------------------------------------------
(* C3 *)

\* A session that does nothing but call App::next_request_id, up to and beyond the
\* largest value of the counter.
CallNextRequestId ==
    /\ Len(returned_ids) <= U64Max
    /\ Commit(next_request_id(App))
    /\ UNCHANGED pc

NextCounter == CallNextRequestId

SpecCounter == Init /\ [][NextCounter]_vars

\* C3: every call of next_request_id returns a value strictly greater than every value
\* it returned before in the session, so that no value is returned twice, also when the
\* counter has reached its largest value.
C3_IdsStrictlyIncrease ==
    \A i, j \in DOMAIN returned_ids : i < j => returned_ids[i] < returned_ids[j]

----------------------------------------------------------------------------
(* C4 *)

\* the search tasks this step spawns
SearchDispatched == { u \in spawned' \ spawned : u.cat = "search" }

\* the popup is on the Icons tab with no collection filter
RemoteSearchContext ==
    PopupOpen /\ Popup.active_tab = "Icons" /\ Popup.selected_collection_filter = None

\* After the last edit of a burst and until its dispatch, the trimmed final text (when
\* not empty) is the pending query and a deadline is armed; no second search is
\* dispatched before the next edit.
C4_Armed ==
    /\ burst.dispatches <= 1
    /\ ( RemoteSearchContext /\ Trim(Popup.search_value) # << >> /\ burst.dispatches = 0 )
       => /\ Popup.pending_search_query = Some(Trim(Popup.search_value))
          /\ Popup.debounce_deadline # None

\* A search is dispatched only by a tick that finds the deadline of the last edit
\* reached, for the trimmed final text; and such a tick dispatches exactly one.
C4_Dispatch ==
    /\ \A u \in SearchDispatched :
          /\ pc = "update" /\ pc' = "poll"
          /\ RemoteSearchContext
          /\ Popup.debounce_deadline # None
          /\ Unwrap(Popup.debounce_deadline) <= Now
          /\ u.arg = Trim(Popup.search_value)
          /\ u.arg # << >>
          /\ burst.dispatches = 0
          /\ SearchDispatched = {u}
    /\ ( /\ pc = "update" /\ pc' = "poll"
         /\ RemoteSearchContext
         /\ Trim(Popup.search_value) # << >>
         /\ burst.dispatches = 0
         /\ Unwrap(Popup.debounce_deadline) <= Now )
       => \E u \in SearchDispatched :
             u.arg = Trim(Popup.search_value) /\ SearchDispatched = {u}

\* C4: on the Icons tab with no collection filter, a burst of query edits, each made
\* before a tick has reached the deadline of the edit before, is answered by exactly one
\* search dispatch, made after the last edit, for the trimmed final query text (when
\* that text is not empty).
C4_OneDispatchPerBurst == [](C4_Armed) /\ [][C4_Dispatch]_vars

\* A burst of several edits on the Icons tab has just been answered by its one dispatch.
C4_Witness ==
    /\ RemoteSearchContext
    /\ burst.edits = "many" /\ burst.dispatches = 1
    /\ pc = "poll"
    /\ \E u \in tasks :
          /\ u.cat = "search"
          /\ u.request_id = Popup.latest_search_request_id
          /\ u.arg = Trim(Popup.search_value)
          /\ Requests("search") = {u}

----------------------------------------------------------------------------
(* C5 *)

\* the fetches of the icons of collection prefix made in the current popup lifetime
Fetches(prefix) == { u \in Requests("collection_icons") : u.arg = prefix }

OpensCollection(prefix) ==
    /\ pc = "poll" /\ pc' = "update"
    /\ last_action' = [key |-> "Enter", action |-> "OpenCollection", arg |-> prefix]

----------------------------------------------------------------------------
(* C6 *)

\* a collection filter is active in the popup state o : Option
FilterActive(o) == o # None /\ IsSome(Unwrap(o).selected_collection_filter)

\* C6: while a collection filter is active (before or after the step), no step issues a
\* search request id or spawns a search task: the latest search id stays what it was, and
\* an id the step issues is the id of the collections or collection-icon task it spawns.
C6_NoSearchWhileFiltered ==
    [][ ( FilterActive(iconify_search_popup_state) \/ FilterActive(iconify_search_popup_state') )
        => /\ SearchDispatched = {}
           /\ ( PopupOpen /\ iconify_search_popup_state' # None /\ lifetime' = lifetime )
              => Unwrap(iconify_search_popup_state').latest_search_request_id
                     = Popup.latest_search_request_id
           /\ \/ returned_ids' = returned_ids
              \/ \E u \in spawned' \ spawned :
                    /\ u.cat # "search"
                    /\ returned_ids' = Append(returned_ids, u.request_id) ]_vars

\* With a filter active and its icons cached, a query was typed and a tick has run: the
\* list is filtered locally and this popup has dispatched no search.
C6_Witness ==
    /\ FilterActive(iconify_search_popup_state)
    /\ Popup.active_tab = "Icons"
    /\ Popup.collection_icons_prefix = Popup.selected_collection_filter
    /\ Trim(Popup.search_value) # << >>
    /\ Popup.visible_icons = fuzzy_filter_icons(Popup.collection_icons, Trim(Popup.search_value))
    /\ Popup.visible_icons # << >>
    /\ Popup.visible_icons # Popup.collection_icons
    /\ pc = "poll"
    /\ Requests("search") = {}

----------------------------------------------------------------------------
(* C7 *)

\* the fields of the application (the history variables left out)
app_fields ==
    << app_focus, should_quit, iconify_search_popup_state, next_async_request_id, staged_icon >>

\* C7: handling the completion of a request dispatched during an earlier popup lifetime
\* changes no state, whether the popup is closed or has been reopened, in every category.
C7_EarlierLifetimeDropped ==
    [][\A task \in tasks :
          ( Handled(task) /\ task.lifetime < lifetime ) => app_fields' = app_fields]_vars

----------------------------------------------------------------------------
(* C8 *)

\* this step reopens the popup
Reopens == lifetime >= 1 /\ lifetime' = lifetime + 1

\* C8: reopening the popup yields a state with empty collection, search and
\* collection-icon caches, no cached prefix, no filter, an empty query, the Collections
\* tab and both selection indices 0, and the id of its collections fetch is strictly
\* greater than every id issued before.
C8_ReopenIsFreshWithLargerId ==
    [][ Reopens =>
          /\ iconify_search_popup_state' # None
          /\ LET s == Unwrap(iconify_search_popup_state') IN
               /\ s.all_collections = << >> /\ s.filtered_collections = << >>
               /\ s.search_icons = << >> /\ s.collection_icons = << >>
               /\ s.visible_icons = << >>
               /\ s.collection_icons_prefix = None
               /\ s.selected_collection_filter = None
               /\ s.search_value = << >> /\ s.search_textarea = << >>
               /\ s.active_tab = "Collections"
               /\ s.selected_collection_index = 0 /\ s.selected_icon_index = 0
               /\ s.latest_collections_request_id = next_async_request_id'
               /\ \E u \in tasks' \ tasks :
                     u.cat = "collections" /\ u.request_id = s.latest_collections_request_id
               /\ \A i \in DOMAIN returned_ids :
                     returned_ids[i] < s.latest_collections_request_id ]_vars

----------------------------------------------------------------------------
(* C9 *)

\* index selects an element of list, or is 0 when list is empty
InRange(index, list) == IF list = << >> THEN index = 0 ELSE index < Len(list)

\* C9: while the popup is open, selected_collection_index is less than the length of
\* the visible collection list (all collections when the trimmed query is empty, the
\* filtered ones otherwise) or 0 when that list is empty, and selected_icon_index is
\* less than the length of visible_icons or 0 when it is empty.
C9_SelectionInRange ==
    PopupOpen =>
        /\ InRange(Popup.selected_collection_index, active_collections(Popup))
        /\ InRange(Popup.selected_icon_index, Popup.visible_icons)

\* Both lists have several elements and both selections are on the last one.
C9_Witness ==
    /\ PopupOpen
    /\ Len(active_collections(Popup)) > 1
    /\ Popup.selected_collection_index = Len(active_collections(Popup)) - 1
    /\ Len(Popup.visible_icons) > 1
    /\ Popup.selected_icon_index = Len(Popup.visible_icons) - 1

----------------------------------------------------------------------------
(* C10 *)

\* the search data, the visible icons and the status of the popup state o : Option
SearchView(o) ==
    << Unwrap(o).search_icons, Unwrap(o).visible_icons,
       Unwrap(o).status_message, Unwrap(o).status_is_error >>

\* C10: handling a search completion whose id is the latest search id leaves
\* search_icons, visible_icons and the status unchanged when its query differs from the
\* trimmed query text, or the Icons tab is not active, or a collection filter is set.
C10_SearchAppliedOnlyInContext ==
    [][\A task \in tasks :
          ( /\ Handled(task)
            /\ task.cat = "search"
            /\ PopupOpen
            /\ task.request_id = Popup.latest_search_request_id
            /\ \/ task.arg # Trim(Popup.search_value)
               \/ Popup.active_tab # "Icons"
               \/ IsSome(Popup.selected_collection_filter) )
          => SearchView(iconify_search_popup_state') = SearchView(iconify_search_popup_state)
       ]_vars

\* The completion of the latest search, answered with icons, was handled last while the
\* text no longer was its query; the popup shows none of its icons.
C10_Witness ==
    /\ PopupOpen
    /\ last_event # None
    /\ Unwrap(last_event).cat = "search"
    /\ Unwrap(last_event).lifetime = lifetime
    /\ Unwrap(last_event).request_id = Popup.latest_search_request_id
    /\ Unwrap(last_event).arg # Trim(Popup.search_value)
    /\ latest_result["search"] # None
    /\ Unwrap(latest_result["search"]).ok
    /\ Unwrap(latest_result["search"]).val # << >>
    /\ Popup.search_icons = << >>

----------------------------------------------------------------------------
(* C11 *)

\* C11: the collection-icon cache holds the data of one prefix: when
\* collection_icons_prefix is Some(P), collection_icons is the icon list that the
\* successful collection-icon completion for P applied last delivered (not the icons of
\* another prefix, and not an emptied list still tagged with P).
C11_CacheCoherent ==
    ( PopupOpen /\ Popup.collection_icons_prefix # None )
    => /\ delivered # None
       /\ Unwrap(delivered).prefix = Unwrap(Popup.collection_icons_prefix)
       /\ Unwrap(delivered).icons = Popup.collection_icons

----------------------------------------------------------------------------
(* C12 *)

\* the completion of task is authoritative: it carries the latest id of its category
\* and, for a search, its query and the search context pass the guards
Authoritative(task) ==
    /\ PopupOpen
    /\ task.lifetime = lifetime
    /\ task.request_id = LatestId(Popup, task.cat)
    /\ task.cat = "search" => ( task.arg = Trim(Popup.search_value) /\ RemoteSearchContext )

\* this step is App::update handling the completion event of task, which carries result
HandledWith(task, result) ==
    /\ Handled(task)
    /\ task.request_id = LastSpawned(task.cat)
    /\ latest_result'[task.cat] = Some(result)

\* the status messages of an empty success
NothingFound ==
    { Msg("No Iconify collections found.", << >>),
      Msg("No matching icons or collections.", << >>),
      Msg("No icons in this collection.", << >>) }

\* C12: when an authoritative completion of any category succeeds with an empty list,
\* the status becomes a 'nothing found' message with status_is_error = FALSE.
C12_EmptySuccessIsNotAnError ==
    [][\A task \in tasks :
          ( Authoritative(task) /\ HandledWith(task, Ok(<< >>)) )
          => /\ Unwrap(iconify_search_popup_state').status_message \in
                    { Some(m) : m \in NothingFound }
             /\ ~Unwrap(iconify_search_popup_state').status_is_error ]_vars

----------------------------------------------------------------------------
(* C13 *)

\* the loading flag of a category in the popup state s
Loading(s, cat) ==
    CASE cat = "collections" -> s.is_loading_collections
      [] cat = "search" -> s.is_loading_search
      [] OTHER -> s.is_loading_collection_icons

\* C13: when an authoritative completion of any category carries Err(message), the
\* status becomes that message with status_is_error = TRUE, the loading flag of the
\* category is cleared, the popup stays open with the focus and the application does not
\* quit; a failed search leaves search_icons empty, a failed collection-icon fetch leaves
\* collection_icons empty and no cached prefix.
C13_ErrorBecomesStatus ==
    [][\A task \in tasks : \A result \in Outcomes(task) :
          ( ~result.ok /\ Authoritative(task) /\ HandledWith(task, result) )
          => /\ iconify_search_popup_state' # None
             /\ app_focus' = "IconifySearchPopup"
             /\ should_quit' = FALSE
             /\ LET s == Unwrap(iconify_search_popup_state') IN
                  /\ s.status_message = Some(Msg(result.err, << >>))
                  /\ s.status_is_error
                  /\ ~Loading(s, task.cat)
                  /\ task.cat = "search" => s.search_icons = << >>
                  /\ task.cat = "collection_icons"
                         => s.collection_icons = << >> /\ s.collection_icons_prefix = None
       ]_vars

\* The failed completion of the latest collection-icon fetch was handled last: the popup
\* is open on that collection and shows the error, with nothing cached.
C13_Witness ==
    /\ PopupOpen
    /\ app_focus = "IconifySearchPopup"
    /\ last_event # None
    /\ Unwrap(last_event).cat = "collection_icons"
    /\ Unwrap(last_event).request_id = Popup.latest_collection_icons_request_id
    /\ latest_result["collection_icons"] = Some(Err("request failed"))
    /\ Popup.selected_collection_filter = Some(Unwrap(last_event).arg)
    /\ Popup.status_message = Some(Msg("request failed", << >>))
    /\ Popup.status_is_error
    /\ Popup.collection_icons_prefix = None
    /\ Cardinality(Requests("collection_icons")) > 1

----------------------------------------------------------------------------
(* C14 *)

\* the request of category cat spawned last was answered with an error, and no request
\* of the category has been spawned since; arg is what it was spawned for
FailedLast(cat, arg) ==
    /\ PopupOpen
    /\ latest_result[cat] # None
    /\ ~Unwrap(latest_result[cat]).ok
    /\ \E u \in Requests(cat) : u.request_id = LastSpawned(cat) /\ u.arg = arg

\* this step spawns exactly one task, of category cat for arg, under an id that
\* next_request_id had not returned before
SpawnsFresh(cat, arg) ==
    \E u \in spawned' \ spawned :
        /\ spawned' \ spawned = {u}
        /\ tasks' = tasks \cup {u}
        /\ u.cat = cat /\ u.arg = arg
        /\ u.request_id = next_async_request_id'
        /\ LatestId(Unwrap(iconify_search_popup_state'), cat) = u.request_id
        /\ \A i \in DOMAIN returned_ids : returned_ids[i] # u.request_id

\* this step is the popup handling a key that edits the query
EditsQuery ==
    /\ pc = "poll" /\ pc' = "update"
    /\ last_action'.key \in { "Char", "Backspace" }

\* C14: after the collection-icon fetch for prefix P failed, the next Enter on P
\* dispatches a new fetch for P with a fresh request id; after a search failed, an edit
\* of the query to a non-empty text on the Icons tab (no filter) arms the debounce for
\* the trimmed text, and the tick that finds the deadline reached dispatches a new search
\* for it with a fresh request id.
C14_FailedFetchIsRetryable ==
    [][ /\ \A prefix \in Prefixes :
              ( FailedLast("collection_icons", prefix) /\ OpensCollection(prefix) )
              => SpawnsFresh("collection_icons", prefix)
        /\ ( /\ \E u \in Requests("search") : FailedLast("search", u.arg)
             /\ EditsQuery
             /\ Unwrap(iconify_search_popup_state').active_tab = "Icons"
             /\ Unwrap(iconify_search_popup_state').selected_collection_filter = None
             /\ Trim(Unwrap(iconify_search_popup_state').search_value) # << >> )
           => /\ Unwrap(iconify_search_popup_state').pending_search_query
                     = Some(Trim(Unwrap(iconify_search_popup_state').search_value))
              /\ Unwrap(iconify_search_popup_state').debounce_deadline
                     = Some(Now + SEARCH_DEBOUNCE_MS)
        /\ ( /\ \E u \in Requests("search") : FailedLast("search", u.arg)
             /\ pc = "update" /\ pc' = "poll"
             /\ RemoteSearchContext
             /\ Popup.pending_search_query # None
             /\ Unwrap(Popup.debounce_deadline) <= Now )
           => SpawnsFresh("search", Unwrap(Popup.pending_search_query)) ]_vars

----------------------------------------------------------------------------
(* C15 *)

\* this step is the popup handling the key (Tab, Enter, Esc, ...)
Presses(key) ==
    /\ pc = "poll" /\ pc' = "update"
    /\ PopupOpen
    /\ last_action'.key = key

\* Tab on the Icons tab leaves the Collections tab with no filter, no text and nothing
\* pending, and dispatches nothing.
C15_TabStep ==
    ( Presses("Tab") /\ Popup.active_tab = "Icons" )
    => /\ iconify_search_popup_state' # None
       /\ LET s == Unwrap(iconify_search_popup_state') IN
            /\ s.active_tab = "Collections"
            /\ s.selected_collection_filter = None
            /\ s.search_textarea = << >> /\ s.search_value = << >>
            /\ s.pending_search_query = None
            /\ s.debounce_deadline = None
       /\ spawned' = spawned

\* on the Collections tab no query is pending and no deadline is armed
C15_NothingPendingOnCollections ==
    ( PopupOpen /\ Popup.active_tab = "Collections" )
    => Popup.pending_search_query = None /\ Popup.debounce_deadline = None

\* C15: Tab on the Icons tab, from any state, results in the Collections tab, no
\* collection filter, an empty query text, no pending search query and no debounce
\* deadline; and nothing is pending while the Collections tab is active, so no search
\* is dispatched afterwards for the text typed before the switch.
C15_TabToCollectionsClears ==
    [](C15_NothingPendingOnCollections) /\ [][C15_TabStep]_vars

\* Tab has just been handled on the Icons tab, where a collection was open with its
\* icons cached.
C15_Witness ==
    /\ PopupOpen
    /\ last_action.key = "Tab"
    /\ Popup.active_tab = "Collections"
    /\ Popup.collection_icons # << >>
    /\ Popup.selected_collection_filter = None
    /\ Popup.search_value = << >>

----------------------------------------------------------------------------
(* C16 *)

\* Tab on the Collections tab switches to the Icons tab with the text as it was, and
\* arms the debounce for the trimmed text exactly when that is not empty.
C16_TabStep ==
    ( Presses("Tab") /\ Popup.active_tab = "Collections" )
    => /\ iconify_search_popup_state' # None
       /\ LET s == Unwrap(iconify_search_popup_state') IN
            /\ s.active_tab = "Icons"
            /\ s.search_textarea = Popup.search_textarea
            /\ s.search_value = Popup.search_value
            /\ s.selected_collection_filter = None
            /\ IF Trim(Popup.search_value) # << >>
               THEN /\ s.pending_search_query = Some(Trim(Popup.search_value))
                    /\ s.debounce_deadline = Some(Now + SEARCH_DEBOUNCE_MS)
               ELSE /\ s.pending_search_query = None
                    /\ s.debounce_deadline = None

\* on the Collections tab no collection filter is active
C16_NoFilterOnCollections ==
    ( PopupOpen /\ Popup.active_tab = "Collections" )
    => Popup.selected_collection_filter = None

\* C16: Tab on the Collections tab switches to the Icons tab and leaves the query text
\* unchanged; no collection filter is active there, so a non-empty trimmed query becomes
\* the pending search query with a fresh debounce deadline, and with an empty one no
\* pending query and no deadline are set.
C16_TabToIconsArmsSearch ==
    [](C16_NoFilterOnCollections) /\ [][C16_TabStep]_vars

\* Tab has just been handled on the Collections tab with a query typed there: the Icons
\* tab is active and the debounce is armed for the query.
C16_Witness ==
    /\ PopupOpen
    /\ last_action.key = "Tab"
    /\ Popup.active_tab = "Icons"
    /\ Popup.search_textarea # << >>
    /\ Popup.filtered_collections # << >>
    /\ Popup.pending_search_query = Some(Trim(Popup.search_value))
    /\ Popup.debounce_deadline = Some(Now + SEARCH_DEBOUNCE_MS)

----------------------------------------------------------------------------
(* C17 *)

\* the collection list the popup state s shows: all collections when the trimmed query
\* is empty, the filtered ones otherwise
VisibleCollections(s) ==
    IF Trim(s.search_value) = << >> THEN s.all_collections ELSE s.filtered_collections

\* the prefix Enter commits: that of the visible entry at selected_collection_index
Highlighted(s) == VisibleCollections(s)[s.selected_collection_index + 1].prefix

\* C17: Enter on the Collections tab with a non-empty visible collection list commits
\* as filter the prefix of the entry at selected_collection_index of the visible list
\* (the filtered list when a query is typed), switches to the Icons tab, clears the query
\* text, and dispatches one collection-icon fetch for that prefix unless the cache is
\* tagged with it, in which case it dispatches nothing.
C17_EnterCommitsHighlighted ==
    [][ ( /\ Presses("Enter")
          /\ Popup.active_tab = "Collections"
          /\ VisibleCollections(Popup) # << >> )
        => /\ iconify_search_popup_state' # None
           /\ LET s == Unwrap(iconify_search_popup_state') IN
                /\ s.selected_collection_filter = Some(Highlighted(Popup))
                /\ s.active_tab = "Icons"
                /\ s.search_textarea = << >> /\ s.search_value = << >>
           /\ IF Popup.collection_icons_prefix = Some(Highlighted(Popup))
              THEN spawned' = spawned /\ tasks' = tasks
              ELSE \E u \in spawned' \ spawned :
                      /\ spawned' \ spawned = {u}
                      /\ tasks' = tasks \cup {u}
                      /\ u.cat = "collection_icons"
                      /\ u.arg = Highlighted(Popup)
                      /\ u.request_id
                             = Unwrap(iconify_search_popup_state').latest_collection_icons_request_id
      ]_vars

\* Enter has just been handled on the first entry of a filtered list, which is not the
\* first entry of the full list: its prefix is the filter and its icons are being fetched.
C17_Witness ==
    /\ PopupOpen
    /\ last_action.key = "Enter"
    /\ last_action.action = "OpenCollection"
    /\ Popup.selected_collection_filter = Some(last_action.arg)
    /\ Popup.selected_collection_index = 0
    /\ Popup.all_collections # << >>
    /\ Popup.all_collections[1].prefix # last_action.arg
    /\ Popup.active_tab = "Icons"
    /\ \E u \in tasks : u.cat = "collection_icons" /\ u.arg = last_action.arg

----------------------------------------------------------------------------
(* C18 *)

\* this step is the popup handling Enter on the Icons tab with an icon highlighted
ConfirmsIcon ==
    /\ Presses("Enter")
    /\ Popup.active_tab = "Icons"
    /\ Popup.visible_icons # << >>

\* C18: the add collaborator is handed an icon only by Enter on the Icons tab: that
\* step stages, once, the icon at selected_icon_index of visible_icons and discards the
\* popup state; no other step (completion event, tick, other key) stages an icon.
C18_OnlyEnterStagesIcon ==
    [][ /\ ConfirmsIcon
           => /\ staged_icon = None
              /\ staged_icon' = Some(Popup.visible_icons[Popup.selected_icon_index + 1])
              /\ iconify_search_popup_state' = None
              /\ app_focus' = "AddPopup"
        /\ ( staged_icon' # None /\ staged_icon' # staged_icon ) => ConfirmsIcon ]_vars

\* Enter has just been handled on the second of two visible icons: that icon is staged
\* and the popup is closed.
C18_Witness ==
    /\ ~PopupOpen
    /\ app_focus = "AddPopup"
    /\ last_action.key = "Enter"
    /\ last_action.action = "FillAddPopup"
    /\ staged_icon = Some(<< "m", ":", "b" >>)

----------------------------------------------------------------------------
(* C19 *)

\* this step issues no request id and spawns no task
DispatchesNothing ==
    /\ spawned' = spawned
    /\ tasks' \subseteq tasks
    /\ returned_ids' = returned_ids
    /\ next_async_request_id' = next_async_request_id

\* C19: Esc closes the popup from either tab and in every state: the popup state
\* becomes absent, the focus returns to the main view and the close dispatches no
\* request; and while the popup is closed no tick dispatches anything.
C19_EscCloses ==
    [][ /\ Presses("Esc")
           => /\ iconify_search_popup_state' = None
              /\ app_focus' = "Main"
              /\ tasks' = tasks
              /\ DispatchesNothing
        /\ ( ~PopupOpen /\ pc = "update" ) => DispatchesNothing ]_vars

\* Esc has just closed the popup while a search and a collection-icon fetch of its were
\* in flight.
C19_Witness ==
    /\ ~PopupOpen
    /\ app_focus = "Main"
    /\ last_action.key = "Esc"
    /\ \E u \in tasks : u.cat = "search" /\ u.lifetime = lifetime
    /\ \E u \in tasks : u.cat = "collection_icons" /\ u.lifetime = lifetime

----------------------------------------------------------------------------
(* C20 *)

\* An edit of the query on the Icons tab with no filter arms the debounce for the
\* trimmed new text when that is not empty, and disarms it otherwise; and a search
\* is dispatched for no empty or untrimmed query.
C20_EditStep ==
    /\ ( EditsQuery /\ RemoteSearchContext )
       => /\ iconify_search_popup_state' # None
          /\ LET s == Unwrap(iconify_search_popup_state') IN
               /\ s.search_value = s.search_textarea
               /\ IF Trim(s.search_textarea) # << >>
                  THEN /\ s.pending_search_query = Some(Trim(s.search_textarea))
                       /\ s.debounce_deadline = Some(Now + SEARCH_DEBOUNCE_MS)
                       /\ s.is_loading_search
                  ELSE /\ s.pending_search_query = None
                       /\ s.debounce_deadline = None
                       /\ ~s.is_loading_search
          /\ SearchDispatched = {}
    /\ \A u \in SearchDispatched : u.arg # << >> /\ u.arg = Trim(u.arg)

\* a pending query is never empty, and has a deadline
C20_PendingIsNotEmpty ==
    ( PopupOpen /\ Popup.pending_search_query # None )
    => /\ Unwrap(Popup.pending_search_query) # << >>
       /\ Unwrap(Popup.pending_search_query) = Trim(Popup.search_value)
       /\ Popup.debounce_deadline # None

\* C20: an edit of the query on the Icons tab with no collection filter sets the pending
\* search query to the trimmed new text with a fresh debounce deadline and sets
\* is_loading_search when the trimmed text is not empty; when the text is empty or
\* whitespace only, no pending query and no deadline exist afterwards and
\* is_loading_search is false, and no search is ever dispatched for such a text.
C20_EditArmsDebounce ==
    [](C20_PendingIsNotEmpty) /\ [][C20_EditStep]_vars

\* A space has just been typed on the Icons tab with no filter, after a search for an
\* earlier text of this popup was dispatched: nothing is pending for the blank text.
C20_Witness ==
    /\ RemoteSearchContext
    /\ last_action.key = "Char"
    /\ Popup.search_textarea = << " " >>
    /\ Popup.pending_search_query = None
    /\ Popup.debounce_deadline = None
    /\ ~Popup.is_loading_search
    /\ Requests("search") # {}

----------------------------------------------------------------------------
(* C21 *)

\* the popup state s shows a collection whose icons are cached
FilterCached(s) ==
    /\ s.active_tab = "Icons"
    /\ IsSome(s.selected_collection_filter)
    /\ s.collection_icons_prefix = s.selected_collection_filter

\* C21: an edit of the query on the Icons tab, while a collection filter is active and
\* its icons are cached, sets visible_icons to the fuzzy ranking of the new trimmed query
\* over the cached icon list (the whole list when it is empty), leaves
\* pending_search_query absent and is_loading_search false, and issues no request id.
C21_FilteredEditIsLocal ==
    [][ ( EditsQuery /\ FilterCached(Popup) )
        => /\ iconify_search_popup_state' # None
           /\ LET s == Unwrap(iconify_search_popup_state') IN
                /\ s.search_value = s.search_textarea
                /\ s.collection_icons = Popup.collection_icons
                /\ s.visible_icons =
                       IF Trim(s.search_value) = << >> THEN s.collection_icons
                       ELSE fuzzy_filter_icons(s.collection_icons, Trim(s.search_value))
                /\ s.pending_search_query = None
                /\ ~s.is_loading_search
           /\ returned_ids' = returned_ids
           /\ next_async_request_id' = next_async_request_id
           /\ spawned' = spawned /\ tasks' = tasks ]_vars

\* A character has just been typed with a collection open and its two icons cached: one
\* of them matches the query and is the only visible icon.
C21_Witness ==
    /\ PopupOpen
    /\ FilterCached(Popup)
    /\ last_action.key = "Char"
    /\ Len(Popup.collection_icons) = 2
    /\ Len(Popup.visible_icons) = 1
    /\ Popup.visible_icons = fuzzy_filter_icons(Popup.collection_icons, Popup.search_value)
    /\ Popup.pending_search_query = None

----------------------------------------------------------------------------
(* C22 *)

\* the three latest-request ids of the popup state o : Option
LatestIds(o) ==
    << Unwrap(o).latest_collections_request_id,
       Unwrap(o).latest_search_request_id,
       Unwrap(o).latest_collection_icons_request_id >>

\* C22: an edit of the query on the Collections tab re-ranks the collection list against
\* the new trimmed query (all collections when it is empty) and causes no network
\* activity: the request-id counter and the three latest-request ids are unchanged, the
\* pending search query and the debounce deadline stay absent, and no task is spawned.
C22_CollectionsEditIsLocal ==
    [][ ( EditsQuery /\ Popup.active_tab = "Collections" )
        => /\ iconify_search_popup_state' # None
           /\ LET s == Unwrap(iconify_search_popup_state') IN
                /\ s.active_tab = "Collections"
                /\ s.search_value = s.search_textarea
                /\ s.all_collections = Popup.all_collections
                /\ VisibleCollections(s) =
                       IF Trim(s.search_value) = << >> THEN s.all_collections
                       ELSE fuzzy_filter_collections(s.all_collections, Trim(s.search_value))
                /\ s.pending_search_query = None /\ s.debounce_deadline = None
           /\ Popup.pending_search_query = None /\ Popup.debounce_deadline = None
           /\ LatestIds(iconify_search_popup_state') = LatestIds(iconify_search_popup_state)
           /\ next_async_request_id' = next_async_request_id
           /\ returned_ids' = returned_ids
           /\ spawned' = spawned /\ tasks' = tasks ]_vars

\* A character has just been typed on the Collections tab with the catalog loaded: the
\* list shown is the one collection that matches it.
C22_Witness ==
    /\ PopupOpen
    /\ Popup.active_tab = "Collections"
    /\ last_action.key = "Char"
    /\ Len(Popup.all_collections) = 2
    /\ Len(VisibleCollections(Popup)) = 1
    /\ Popup.pending_search_query = None

----------------------------------------------------------------------------
(* C23 *)

\* A query change leaves one deadline, now + SEARCH_DEBOUNCE_MS, or none (never an
\* older one); a search is dispatched only by a tick that finds the deadline reached, at
\* least SEARCH_DEBOUNCE_MS after the most recent query change, and the dispatch clears
\* the pending query and the deadline.
C23_Step ==
    /\ EditsQuery
       => /\ iconify_search_popup_state' # None
          /\ LET s == Unwrap(iconify_search_popup_state') IN
               IF s.active_tab = "Icons" /\ s.selected_collection_filter = None
                  /\ Trim(s.search_value) # << >>
               THEN s.debounce_deadline = Some(Now + SEARCH_DEBOUNCE_MS)
               ELSE s.debounce_deadline = None
    /\ SearchDispatched # {}
       => /\ pc = "update" /\ pc' = "poll"
          /\ Popup.debounce_deadline # None
          /\ Unwrap(Popup.debounce_deadline) <= Now
          /\ burst.age >= SEARCH_DEBOUNCE_MS
          /\ Cardinality(SearchDispatched) = 1
          /\ \A u \in SearchDispatched : Popup.pending_search_query = Some(u.arg)
          /\ Unwrap(iconify_search_popup_state').pending_search_query = None
          /\ Unwrap(iconify_search_popup_state').debounce_deadline = None

\* a deadline is armed exactly while a query is pending, and at most one search has been
\* dispatched since the last query change
C23_OneTimer ==
    /\ PopupOpen => ( Popup.pending_search_query = None <=> Popup.debounce_deadline = None )
    /\ burst.dispatches <= 1

\* C23: every query change overwrites the single debounce deadline with
\* now + SEARCH_DEBOUNCE_MS (no timer is queued); a search is never dispatched before
\* the deadline set by the most recent query change is reached; the tick that dispatches
\* the pending query clears the pending query and the deadline, so an armed query is
\* dispatched at most once.
C23_DebounceDeadline ==
    [](C23_OneTimer) /\ [][C23_Step]_vars

\* A tick has just dispatched the pending query, SEARCH_DEBOUNCE_MS after the last of
\* several edits: the pending query and the deadline are cleared.
C23_Witness ==
    /\ RemoteSearchContext
    /\ pc = "poll"
    /\ burst.edits = "many" /\ burst.dispatches = 1 /\ burst.age = SEARCH_DEBOUNCE_MS
    /\ Popup.pending_search_query = None
    /\ Popup.debounce_deadline = None
    /\ Popup.is_loading_search
    /\ \E u \in tasks : u.cat = "search" /\ u.request_id = Popup.latest_search_request_id

----------------------------------------------------------------------------
(* C24 *)

\* the collections fetches this step dispatches
CollectionsDispatched == { u \in spawned' \ spawned : u.cat = "collections" }

\* this step opens the popup
Opens == lifetime' = lifetime + 1

\* this step stays within one popup lifetime
WithinLifetime == PopupOpen /\ iconify_search_popup_state' # None /\ lifetime' = lifetime

\* the opening step dispatches one collections fetch, recorded as the latest
C24_OpenStep ==
    Opens => /\ Cardinality(CollectionsDispatched) = 1
             /\ \A u \in CollectionsDispatched :
                   /\ u.lifetime = lifetime'
                   /\ u.request_id
                        = Unwrap(iconify_search_popup_state').latest_collections_request_id
             /\ Unwrap(iconify_search_popup_state').all_collections = << >>
             /\ Unwrap(iconify_search_popup_state').is_loading_collections

\* within a lifetime is_loading_collections is never set again, and all_collections
\* changes only on the successful completion of the collections fetch of the lifetime
C24_LifetimeStep ==
    WithinLifetime =>
        LET s == Unwrap(iconify_search_popup_state') IN
        /\ ( s.is_loading_collections => Popup.is_loading_collections )
        /\ ( s.all_collections # Popup.all_collections )
           => /\ Popup.is_loading_collections
              /\ ~s.is_loading_collections
              /\ \E task \in Requests("collections") :
                    /\ Handled(task)
                    /\ latest_result'["collections"] = Some(Ok(s.all_collections))

\* C24: opening the popup dispatches exactly one collections fetch, in the opening step
\* itself, and no other step dispatches one; within a popup lifetime all_collections is
\* replaced only by the successful completion of that fetch, which comes while
\* is_loading_collections is set and clears it for the rest of the lifetime, so at most
\* once.
C24_OneCollectionsFetch ==
    /\ [](PopupOpen => Cardinality(Requests("collections")) = 1)
    /\ [][ /\ C24_OpenStep
            /\ ( ~Opens => CollectionsDispatched = {} )
            /\ C24_LifetimeStep ]_vars

----------------------------------------------------------------------------
(* C25 *)

\* the status of popup state s is the text of a collections load in progress
ShowsLoadingCollections(s) ==
    s.status_message = Some(Msg("Loading collections...", << >>))

\* the status of popup state s is the text of a collection-icon load in progress
ShowsLoadingCollectionIcons(s) ==
    /\ s.status_message # None
    /\ Unwrap(s.status_message).fmt = "Loading icons for collection '{prefix}'..."

\* C25: in every reachable state of the popup, a "Loading collections..." status comes
\* with is_loading_collections set, a "Loading icons for collection ..." status with
\* is_loading_collection_icons set, both with status_is_error false, and status_is_error
\* is true only while a status message is present.
C25_NoStaleLoadingStatus ==
    PopupOpen =>
        /\ ShowsLoadingCollections(Popup)
           => ( Popup.is_loading_collections /\ ~Popup.status_is_error )
        /\ ShowsLoadingCollectionIcons(Popup)
           => ( Popup.is_loading_collection_icons /\ ~Popup.status_is_error )
        /\ Popup.status_is_error => Popup.status_message # None

\* The icons of a collection are being loaded and the status says so, after the
\* collections load and an earlier collection-icon fetch of this lifetime were answered.
C25_Witness ==
    /\ PopupOpen
    /\ ShowsLoadingCollectionIcons(Popup)
    /\ Popup.is_loading_collection_icons
    /\ ~Popup.is_loading_collections
    /\ ~Popup.status_is_error
    /\ \E u \in spawned : u.lifetime = lifetime /\ u.cat = "collection_icons"
                             /\ u \notin tasks

----------------------------------------------------------------------------
(* C26 *)

\* visible_icons as the rest of popup state s determines it
DerivedVisibleIcons(s) ==
    IF s.selected_collection_filter # None
    THEN IF s.collection_icons_prefix # s.selected_collection_filter THEN << >>
         ELSE IF Trim(s.search_value) = << >> THEN s.collection_icons
         ELSE fuzzy_filter_icons(s.collection_icons, Trim(s.search_value))
    ELSE s.search_icons

\* C26: in every reachable state of an open popup, visible_icons equals its derivation
\* from the rest of the state: with a filter P, empty when the cache is not tagged with P
\* and otherwise the fuzzy ranking of the trimmed query over the cached icon list (the
\* whole list when the query is empty); with no filter, search_icons.
C26_VisibleIconsDerived ==
    PopupOpen => Popup.visible_icons = DerivedVisibleIcons(Popup)

\* A filter is active, its icons are cached and the query keeps some of them but not
\* all.
C26_Witness ==
    /\ PopupOpen
    /\ Popup.selected_collection_filter # None
    /\ Popup.collection_icons_prefix = Popup.selected_collection_filter
    /\ Trim(Popup.search_value) # << >>
    /\ Popup.visible_icons # << >>
    /\ Len(Popup.visible_icons) < Len(Popup.collection_icons)

----------------------------------------------------------------------------
(* C27 *)

\* fuzzy_rank_indices has been called on the query and the candidates of ranking
Ranks == ranking.calls >= 1

\* what the last call returned
RankOutput == Unwrap(ranking.result)

\* C27: for every candidate list, ranking with an empty or whitespace-only query returns
\* the candidates unchanged: the same elements, in the same order, as many.
C27_BlankQueryIsIdentity ==
    ( Ranks /\ Trim(ranking.query) = << >> )
        => /\ Len(RankOutput) = Len(ranking.candidates)
           /\ \A i \in 1..Len(ranking.candidates) :
                 RankOutput[i] = ranking.candidates[i].index

\* A whitespace-only query was ranked over a full list of candidates whose indices are
\* not ascending.
C27_Witness ==
    /\ Ranks
    /\ ranking.query # << >>
    /\ Trim(ranking.query) = << >>
    /\ Len(ranking.candidates) = MaxCandidates
    /\ ranking.candidates[1].index > ranking.candidates[2].index
    /\ Len(RankOutput) = MaxCandidates

----------------------------------------------------------------------------
(* C28 *)

RECURSIVE IsSubsequence(_, _)
\* the characters of needle occur in hay in order, ignoring case, each at its own place
IsSubsequence(needle, hay) ==
    IF needle = << >> THEN TRUE
    ELSE IF hay = << >> THEN FALSE
    ELSE IF Lower(Head(needle)) = Lower(Head(hay))
         THEN IsSubsequence(Tail(needle), Tail(hay))
         ELSE IsSubsequence(needle, Tail(hay))

\* the indices of the candidates in which the query occurs as a subsequence
SubsequenceMatches ==
    { ranking.candidates[i].index :
        i \in { j \in 1..Len(ranking.candidates) :
                   IsSubsequence(ranking.query, ranking.candidates[j].haystack) } }

\* C28: for a non-empty query, ranking returns exactly the candidates in which the
\* query's characters occur in order as a case-insensitive, possibly non-contiguous
\* subsequence, each once, and no candidate without a match.
C28_ExactlySubsequenceMatches ==
    ( Ranks /\ Trim(ranking.query) # << >> )
        => /\ { RankOutput[i] : i \in 1..Len(RankOutput) } = SubsequenceMatches
           /\ Len(RankOutput) = Cardinality(SubsequenceMatches)

----------------------------------------------------------------------------
(* C29 *)

\* the score of the candidate with index ix
ScoreOf(ix) ==
    LET c == CHOOSE c \in { ranking.candidates[i] : i \in 1..Len(ranking.candidates) } :
                 c.index = ix
    IN  Unwrap(PatternScore(ranking.query, c.haystack))

----------------------------------------------------------------------------
(* C30 *)

\* the keys the popup treats as commands
CommandKeys == { "Esc", "Tab", "Up", "Down", "Enter", "Ctrl+o" }

\* this step is the popup handling a key
HandlesKey == pc = "poll" /\ pc' = "update" /\ PopupOpen /\ last_action'.key # "None"

\* a plain character is appended to the text, which becomes the query; the popup stays as
\* it is otherwise: same tab and filter, no action, no request, and the selection is not
\* moved but reset to the first entry
C30_CharStep ==
    Presses("Char")
        => /\ iconify_search_popup_state' # None
           /\ LET s == Unwrap(iconify_search_popup_state') IN
                /\ \E c \in PlainChars \cup QueryChars :
                      s.search_textarea = Append(Popup.search_textarea, c)
                /\ s.search_value = s.search_textarea
                /\ s.active_tab = Popup.active_tab
                /\ s.selected_collection_filter = Popup.selected_collection_filter
                /\ s.selected_collection_index = 0
                /\ s.selected_icon_index = 0
           /\ last_action'.action = "None"
           /\ app_focus' = app_focus
           /\ should_quit' = should_quit
           /\ staged_icon' = staged_icon
           /\ DispatchesNothing

\* a key that closes the popup, changes the tab or the filter, asks for an action or
\* moves the selection (other than back to the first entry) is a command key, and a
\* command key adds nothing to the text
C30_CommandStep ==
    HandlesKey
        => /\ ( \/ iconify_search_popup_state' = None
                \/ last_action'.action # "None"
                \/ Unwrap(iconify_search_popup_state').active_tab # Popup.active_tab
                \/ Unwrap(iconify_search_popup_state').selected_collection_filter
                      # Popup.selected_collection_filter
                \/ Unwrap(iconify_search_popup_state').selected_collection_index
                      \notin { Popup.selected_collection_index, 0 }
                \/ Unwrap(iconify_search_popup_state').selected_icon_index
                      \notin { Popup.selected_icon_index, 0 } )
              => last_action'.key \in CommandKeys
           /\ ( last_action'.key \in CommandKeys /\ iconify_search_popup_state' # None )
              => Unwrap(iconify_search_popup_state').search_textarea
                   \in { Popup.search_textarea, << >> }

\* C30: every plain character key pressed while the popup has the focus, j and k
\* included, is appended to the query text on either tab and is not taken as a
\* navigation or command key; only Esc, Tab, Up, Down, Enter and Ctrl+o are commands.
C30_PlainCharsAreTyped ==
    [][C30_CharStep /\ C30_CommandStep]_vars

\* k has just been typed on the Icons tab of a collection with two icons cached, where
\* a navigation key would have moved the selection; it is the query.
C30_Witness ==
    /\ PopupOpen
    /\ pc = "update"
    /\ last_action.key = "Char"
    /\ Popup.search_value = << "k" >>
    /\ Popup.active_tab = "Icons"
    /\ Popup.selected_collection_filter # None
    /\ Len(Popup.collection_icons) = 2

----------------------------------------------------------------------------
(* C31 *)

\* this step is a key handled by App::handlekeys
KeyPressed == pc = "poll" /\ pc' = "update" /\ last_action' # NoAction

\* nothing is loading and no search is pending
Quiet ==
    /\ ~Popup.is_loading_collections
    /\ ~Popup.is_loading_search
    /\ ~Popup.is_loading_collection_icons
    /\ Popup.pending_search_query = None

\* C31: when the loop keeps running, the deadline passes and every task delivers its
\* completion, a popup that stays open and receives no further key comes to a state,
\* and stays in it, where the three loading flags are false and no search is pending.
C31_EventuallyQuiet ==
    ( <>[]PopupOpen /\ <>[][~KeyPressed]_vars ) => <>[](PopupOpen /\ Quiet)

\* The popup is quiet after a collections fetch, a collection-icon fetch and a search of
\* this lifetime have all delivered their completions.
C31_Witness ==
    /\ PopupOpen
    /\ Quiet
    /\ tasks = {}
    /\ \A cat \in Categories : Requests(cat) # {}

----------------------------------------------------------------------------
(* C32 *)

\* the icons list fetched for prefix P is what the popup shows, ranked by the query
ShowsIconsOf(s, prefix) ==
    /\ s.collection_icons_prefix = Some(prefix)
    /\ s.collection_icons = IconsOf(prefix)
    /\ s.visible_icons = IF Trim(s.search_value) = << >> THEN IconsOf(prefix)
                          ELSE fuzzy_filter_icons(IconsOf(prefix), Trim(s.search_value))

\* C32: on the Icons tab with collection filter P, once every dispatched collection-icon
\* completion has been delivered and status_is_error is false, the cache is tagged with
\* P and visible_icons is the ranking of the current query over the icon list fetched
\* for P, whatever the order in which collections were opened, left and re-opened.
C32_FilterShowsItsCollection ==
    ( /\ PopupOpen
      /\ Popup.active_tab = "Icons"
      /\ Popup.selected_collection_filter # None
      /\ ~Popup.status_is_error
      /\ \A u \in tasks : u.cat # "collection_icons" )
        => /\ Popup.collection_icons_prefix = Popup.selected_collection_filter
           /\ Popup.visible_icons = DerivedVisibleIcons(Popup)
           /\ \E u \in Requests("collection_icons") :
                 /\ u.arg = Unwrap(Popup.selected_collection_filter)
                 /\ delivered = Some([prefix |-> u.arg, icons |-> Popup.collection_icons])

----------------------------------------------------------------------------
(* C33 *)

\* C33: in every reachable state of an open popup, pending_search_query is set exactly
\* when debounce_deadline is set, and then the active tab is Icons, no collection filter
\* is active, and the pending query is not empty and is the trimmed current query text.
C33_PendingMatchesContext ==
    PopupOpen =>
        /\ Popup.pending_search_query # None <=> Popup.debounce_deadline # None
        /\ Popup.pending_search_query # None
           => /\ Popup.active_tab = "Icons"
              /\ Popup.selected_collection_filter = None
              /\ Unwrap(Popup.pending_search_query) # << >>
              /\ Unwrap(Popup.pending_search_query) = Trim(Popup.search_value)

\* A search is pending half way to its deadline, armed by Tab from the Collections tab
\* with a query typed there.
C33_Witness ==
    /\ PopupOpen
    /\ Popup.pending_search_query # None
    /\ Popup.debounce_deadline = Some(Now + SEARCH_DEBOUNCE_MS - ClockStep)
    /\ Popup.filtered_collections # << >>
    /\ burst.edits = "none"

----------------------------------------------------------------------------
(* C34 *)

\* C34: in every reachable state of an open popup a collection filter is active only
\* while the Icons tab is active: on the Collections tab selected_collection_filter is
\* absent.
C34_FilterOnlyOnIcons ==
    PopupOpen => ( Popup.selected_collection_filter # None => Popup.active_tab = "Icons" )

\* Back on the Collections tab with no filter, after a collection was opened in this
\* lifetime and its icons were cached.
C34_Witness ==
    /\ PopupOpen
    /\ Popup.active_tab = "Collections"
    /\ Popup.selected_collection_filter = None
    /\ Popup.collection_icons_prefix # None
    /\ Requests("collection_icons") # {}

----------------------------------------------------------------------------
(* C35 *)

\* C35: the visible collection list is consistent with the query and the catalog: when
\* the trimmed query is non-empty, filtered_collections is the fuzzy ranking of that
\* query over all_collections (also when the catalog arrived after the query was
\* typed); when the trimmed query is empty the visible list is all_collections.
C35_CollectionsFollowQuery ==
    PopupOpen =>
        IF Trim(Popup.search_value) = << >>
        THEN active_collections(Popup) = Popup.all_collections
        ELSE /\ Popup.filtered_collections
                    = fuzzy_filter_collections(Popup.all_collections, Trim(Popup.search_value))
             /\ active_collections(Popup) = Popup.filtered_collections

\* The catalog has just arrived under a query typed before it, and some collection
\* matches the query.
C35_Witness ==
    /\ PopupOpen
    /\ last_event # None
    /\ Unwrap(last_event).cat = "collections"
    /\ Unwrap(last_event).lifetime = lifetime
    /\ Trim(Popup.search_value) # << >>
    /\ Popup.all_collections # << >>
    /\ Popup.filtered_collections # << >>
    /\ Len(Popup.filtered_collections) < Len(Popup.all_collections)

----------------------------------------------------------------------------
(* C36 *)

\* C36: Enter on the Icons tab while visible_icons is empty stages no icon and keeps
\* the popup open with its tab, query, caches and request ids unchanged; the only
\* change is the status, set to "No icon selected." with status_is_error = TRUE.
C36_EnterWithoutIcon ==
    [][ ( /\ Presses("Enter")
          /\ Popup.active_tab = "Icons"
          /\ Popup.visible_icons = << >> )
        => /\ iconify_search_popup_state'
                  = Some([Popup EXCEPT !.status_message = Some(Msg("No icon selected.", << >>)),
                                       !.status_is_error = TRUE])
           /\ staged_icon' = staged_icon
           /\ app_focus' = app_focus
           /\ DispatchesNothing ]_vars

\* Enter has just been handled on the Icons tab of a collection whose cached icons do
\* not match the query: nothing is visible and the error status is shown.
C36_Witness ==
    /\ PopupOpen
    /\ pc = "update"
    /\ last_action.key = "Enter"
    /\ Popup.active_tab = "Icons"
    /\ Popup.visible_icons = << >>
    /\ Popup.collection_icons # << >>
    /\ Popup.selected_collection_filter # None
    /\ Trim(Popup.search_value) # << >>
    /\ Popup.status_message = Some(Msg("No icon selected.", << >>))
    /\ Popup.status_is_error
    /\ staged_icon = None

----------------------------------------------------------------------------
(* C37 *)

\* C37: Enter on the Collections tab while the visible collection list is empty (the
\* catalog not loaded yet, failed, or nothing matches the query) is a no-op: the popup
\* state is unchanged (the tab stays Collections, the query text is kept, no filter is
\* set) and no request id is issued or fetch dispatched.
C37_EnterWithoutCollection ==
    [][ ( /\ Presses("Enter")
          /\ Popup.active_tab = "Collections"
          /\ VisibleCollections(Popup) = << >> )
        => /\ iconify_search_popup_state' = iconify_search_popup_state
           /\ app_focus' = app_focus
           /\ staged_icon' = staged_icon
           /\ DispatchesNothing ]_vars

\* Enter has just been handled on the Collections tab with a loaded catalog and a
\* query that matches no collection: the text is still there and no filter is set.
C37_Witness ==
    /\ PopupOpen
    /\ pc = "update"
    /\ last_action.key = "Enter"
    /\ last_action.action = "None"
    /\ Popup.active_tab = "Collections"
    /\ Popup.all_collections # << >>
    /\ Popup.search_value # << >>
    /\ VisibleCollections(Popup) = << >>
    /\ Popup.selected_collection_filter = None
    /\ Requests("collection_icons") = {}

\* The same with the catalog still loading.
C37_WitnessLoading ==
    /\ PopupOpen
    /\ pc = "update"
    /\ last_action.key = "Enter"
    /\ Popup.active_tab = "Collections"
    /\ Popup.is_loading_collections
    /\ VisibleCollections(Popup) = << >>

\* The same after the catalog failed to load.
C37_WitnessFailed ==
    /\ PopupOpen
    /\ pc = "update"
    /\ last_action.key = "Enter"
    /\ Popup.active_tab = "Collections"
    /\ ~Popup.is_loading_collections
    /\ Popup.all_collections = << >>
    /\ \E u \in Requests("collections") : u \notin tasks

----------------------------------------------------------------------------
(* C38 *)

\* search results are displayed: the Icons tab without a filter shows the non-empty
\* result of a search, and no search is armed or in flight
ResultsDisplayed ==
    /\ PopupOpen
    /\ Popup.active_tab = "Icons"
    /\ Popup.selected_collection_filter = None
    /\ Popup.search_icons # << >>
    /\ Popup.visible_icons = Popup.search_icons
    /\ Popup.pending_search_query = None

\* this step is a key handled by the popup that leaves it open on the same trimmed
\* query text
KeepsTrimmedQuery ==
    /\ KeyPressed
    /\ PopupOpen
    /\ iconify_search_popup_state' # None
    /\ Trim(Unwrap(iconify_search_popup_state').search_value) = Trim(Popup.search_value)

\* C38: on the Icons tab with no collection filter and search results displayed, a key
\* that leaves the trimmed query text unchanged (a cursor-movement key, a trailing
\* space) does not clear the displayed results and does not arm another search for
\* the same query.
C38_SameQueryKeepsResults ==
    [][ ( ResultsDisplayed /\ KeepsTrimmedQuery )
        => /\ Unwrap(iconify_search_popup_state').search_icons = Popup.search_icons
           /\ Unwrap(iconify_search_popup_state').visible_icons = Popup.visible_icons
           /\ Unwrap(iconify_search_popup_state').pending_search_query = None
           /\ Unwrap(iconify_search_popup_state').debounce_deadline = None
           /\ DispatchesNothing ]_vars

\* End has just been handled over displayed results: the query text is the one the
\* results were fetched for, the results are gone and a search for it is armed again.
C38_ResultsCleared ==
    /\ PopupOpen
    /\ pc = "update"
    /\ last_action.key = "End"
    /\ Popup.active_tab = "Icons"
    /\ Popup.selected_collection_filter = None
    /\ Popup.search_value = << "a" >>
    /\ Popup.search_icons = << >>
    /\ Popup.visible_icons = << >>
    /\ Popup.pending_search_query = Some(<< "a" >>)
    /\ Popup.debounce_deadline = Some(Now + SEARCH_DEBOUNCE_MS)
    /\ \E u \in Requests("search") : u.arg = << "a" >> /\ u \notin tasks

====
